---- MODULE Spec2Model ----
(***************************************************************************)
(* Validation / normalization engine of the booking-data-analysis ETL:     *)
(*   JSON2CleanTuple (code/dataflow/bookings_pipeline.py)                  *)
(*   CSV2CleanDict   (code/dataflow/airports_pipeline.py)                  *)
(* One raw record is drawn in Init; the actions follow the code of         *)
(* json2tuple / csv2dict block by block and end with process, which        *)
(* emits the tagged output.                                                *)
(***************************************************************************)
EXTENDS Integers, Sequences, FiniteSets, TLC

VARIABLES
    element,            \* the raw record handed to process()
    pc,                 \* position in json2tuple / csv2dict / process
    bookings,           \* json2tuple: result of json.loads
    timestamp,          \* json2tuple: bookings['timestamp']
    passengers,         \* json2tuple: ...['passengersList']
    products,           \* json2tuple: ...['productsList']
    idx,                \* index of the next element of the running for loop
    passenger_entries,  \* json2tuple: surviving passengers
    flight_entries,     \* json2tuple: surviving flights
    airport,            \* csv2dict: the row dictionary
    output,             \* the Output object returned to process
    emitted,            \* tagged outputs yielded by process
    exc,                \* exception that escaped to the caller ("" if none)
    log,                \* diagnostics handed to the logging module
    suspended,          \* locals of the call that is not running
    started             \* number of calls of process started

vars == <<element, pc, bookings, timestamp, passengers, products, idx,
          passenger_entries, flight_entries, airport, output, emitted, exc, log,
          suspended, started>>

(***************************************************************************)
(* Python values.  Every value carries its type in t; None is JSON null.   *)
(* A dict is a function from its keys to values, so a missing key is a     *)
(* key outside DOMAIN.                                                     *)
(***************************************************************************)
None == [t |-> "null"]
JInt(n) == [t |-> "int", v |-> n]
JBool(b) == [t |-> "bool", v |-> b]
\* A float: sign, integer part, the first nine decimal digits as a number and
\* the digits after the ninth; or not-a-number.
Float(neg, whole, nano, rest) ==
    [t |-> "float", nan |-> FALSE, neg |-> neg, whole |-> whole, nano |-> nano, rest |-> rest]
NaN == [t |-> "float", nan |-> TRUE]
JStr(s) == [t |-> "str", v |-> s]
JList(s) == [t |-> "list", v |-> s]
JObj(f) == [t |-> "obj", v |-> f]
EmptyDict == JObj(<<>>)

Without(f, k) == [j \in DOMAIN f \ {k} |-> f[j]]
With(f, k, val) == [j \in DOMAIN f \cup {k} |-> IF j = k THEN val ELSE f[j]]

\* A truth value under which an empty list counts as true.
Truthy_list_always(x) ==
    CASE x.t = "null" -> FALSE
      [] x.t = "bool" -> x.v
      [] x.t = "int" -> x.v # 0
      [] x.t = "str" -> x.v # ""
      [] x.t = "obj" -> DOMAIN x.v # {}
      [] OTHER -> TRUE

\* Python truth value of an object (`if x:` / `not x`).
Truthy(x) ==
    CASE x.t = "null" -> FALSE
      [] x.t = "bool" -> x.v
      [] x.t = "int" -> x.v # 0
      [] x.t = "float" -> x.nan \/ x.whole # 0 \/ x.nano # 0 \/ x.rest # <<>>
      [] x.t = "str" -> x.v # ""
      [] x.t = "list" -> Len(x.v) > 0
      [] x.t = "obj" -> DOMAIN x.v # {}
      [] x.t = "generator" -> TRUE
      [] OTHER -> TRUE

\* container[key] with a string key: the value, or the exception raised.
Subscript(c, k) ==
    IF c.t = "obj"
    THEN IF k \in DOMAIN c.v
         THEN [exc |-> "", val |-> c.v[k]]
         ELSE [exc |-> "KeyError", val |-> None]
    ELSE [exc |-> "TypeError", val |-> None]

\* Facts about the strings that occur in the records: len(s), s.lower() and
\* s.capitalize().
StrFacts ==
    ("" :> [len |-> 0, lower |-> "", capitalize |-> ""])
    @@ ("u1" :> [len |-> 2, lower |-> "u1", capitalize |-> "U1"])
    @@ ("u2" :> [len |-> 2, lower |-> "u2", capitalize |-> "U2"])
    @@ ("x" :> [len |-> 1, lower |-> "x", capitalize |-> "X"])
    @@ ("abc" :> [len |-> 3, lower |-> "abc", capitalize |-> "Abc"])
    @@ ("A" :> [len |-> 1, lower |-> "a", capitalize |-> "A"])
    @@ ("B" :> [len |-> 1, lower |-> "b", capitalize |-> "B"])
    @@ ("Adt" :> [len |-> 3, lower |-> "adt", capitalize |-> "Adt"])
    @@ ("ADT" :> [len |-> 3, lower |-> "adt", capitalize |-> "Adt"])
    @@ ("chd" :> [len |-> 3, lower |-> "chd", capitalize |-> "Chd"])
    @@ ("Inf" :> [len |-> 3, lower |-> "inf", capitalize |-> "Inf"])
    @@ ("CONFIRMED" :> [len |-> 9, lower |-> "confirmed", capitalize |-> "Confirmed"])
    @@ ("cancelled" :> [len |-> 9, lower |-> "cancelled", capitalize |-> "Cancelled"])
    @@ ("WaitingList" :> [len |-> 11, lower |-> "waitinglist", capitalize |-> "Waitinglist"])
    @@ ("BOOKED" :> [len |-> 6, lower |-> "booked", capitalize |-> "Booked"])
    @@ ("AA" :> [len |-> 2, lower |-> "aa", capitalize |-> "Aa"])
    @@ ("BA" :> [len |-> 2, lower |-> "ba", capitalize |-> "Ba"])
    @@ ("AAA" :> [len |-> 3, lower |-> "aaa", capitalize |-> "Aaa"])
    @@ ("JFK" :> [len |-> 3, lower |-> "jfk", capitalize |-> "Jfk"])
    @@ ("LHR" :> [len |-> 3, lower |-> "lhr", capitalize |-> "Lhr"])
    @@ ("LHRX" :> [len |-> 4, lower |-> "lhrx", capitalize |-> "Lhrx"])
    @@ ("LH" :> [len |-> 2, lower |-> "lh", capitalize |-> "Lh"])
    @@ ("2024-05-01T10:00:00Z" :> [len |-> 20, lower |-> "2024-05-01t10:00:00z", capitalize |-> "2024-05-01t10:00:00z"])
    @@ ("2024-05-01T10:00:00.123456Z" :> [len |-> 27, lower |-> "2024-05-01t10:00:00.123456z", capitalize |-> "2024-05-01t10:00:00.123456z"])
    @@ ("2024-5-1T1:2:3Z" :> [len |-> 15, lower |-> "2024-5-1t1:2:3z", capitalize |-> "2024-5-1t1:2:3z"])
    @@ ("2024-05-01 10:00:00" :> [len |-> 19, lower |-> "2024-05-01 10:00:00", capitalize |-> "2024-05-01 10:00:00"])
    @@ ("3797" :> [len |-> 4, lower |-> "3797", capitalize |-> "3797"])
    @@ ("John F Kennedy Intl" :> [len |-> 19, lower |-> "john f kennedy intl", capitalize |-> "John f kennedy intl"])
    @@ ("New York" :> [len |-> 8, lower |-> "new york", capitalize |-> "New york"])
    @@ ("United States" :> [len |-> 13, lower |-> "united states", capitalize |-> "United states"])
    @@ ("KJFK" :> [len |-> 4, lower |-> "kjfk", capitalize |-> "Kjfk"])
    @@ ("KJF" :> [len |-> 3, lower |-> "kjf", capitalize |-> "Kjf"])
    @@ ("40.639751" :> [len |-> 9, lower |-> "40.639751", capitalize |-> "40.639751"])
    @@ ("90" :> [len |-> 2, lower |-> "90", capitalize |-> "90"])
    @@ ("-90" :> [len |-> 3, lower |-> "-90", capitalize |-> "-90"])
    @@ ("90.5" :> [len |-> 4, lower |-> "90.5", capitalize |-> "90.5"])
    @@ ("nan" :> [len |-> 3, lower |-> "nan", capitalize |-> "Nan"])
    @@ ("40.6397512345678" :> [len |-> 16, lower |-> "40.6397512345678", capitalize |-> "40.6397512345678"])
    @@ ("-73.778925" :> [len |-> 10, lower |-> "-73.778925", capitalize |-> "-73.778925"])
    @@ ("180" :> [len |-> 3, lower |-> "180", capitalize |-> "180"])
    @@ ("-180.5" :> [len |-> 6, lower |-> "-180.5", capitalize |-> "-180.5"])
    @@ ("13" :> [len |-> 2, lower |-> "13", capitalize |-> "13"])
    @@ ("29528" :> [len |-> 5, lower |-> "29528", capitalize |-> "29528"])
    @@ ("29529" :> [len |-> 5, lower |-> "29529", capitalize |-> "29529"])
    @@ ("-1641" :> [len |-> 5, lower |-> "-1641", capitalize |-> "-1641"])
    @@ ("-1642" :> [len |-> 5, lower |-> "-1642", capitalize |-> "-1642"])
    @@ ("-5" :> [len |-> 2, lower |-> "-5", capitalize |-> "-5"])
    @@ ("26" :> [len |-> 2, lower |-> "26", capitalize |-> "26"])
    @@ ("27" :> [len |-> 2, lower |-> "27", capitalize |-> "27"])
    @@ ("5.75" :> [len |-> 4, lower |-> "5.75", capitalize |-> "5.75"])
    @@ ("1.0000000001" :> [len |-> 12, lower |-> "1.0000000001", capitalize |-> "1.0000000001"])
    @@ ("a" :> [len |-> 1, lower |-> "a", capitalize |-> "A"])
    @@ ("X" :> [len |-> 1, lower |-> "x", capitalize |-> "X"])
    @@ ("e" :> [len |-> 1, lower |-> "e", capitalize |-> "E"])
    @@ ("E" :> [len |-> 1, lower |-> "e", capitalize |-> "E"])
    @@ ("America/New_York" :> [len |-> 16, lower |-> "america/new_york", capitalize |-> "America/new_york"])
    @@ ("Mars/Phobos" :> [len |-> 11, lower |-> "mars/phobos", capitalize |-> "Mars/phobos"])
    @@ ("airport" :> [len |-> 7, lower |-> "airport", capitalize |-> "Airport"])
    @@ ("AIRPORT" :> [len |-> 7, lower |-> "airport", capitalize |-> "Airport"])
    @@ ("heliport" :> [len |-> 8, lower |-> "heliport", capitalize |-> "Heliport"])
    @@ ("Station" :> [len |-> 7, lower |-> "station", capitalize |-> "Station"])
    @@ ("OurAirports" :> [len |-> 11, lower |-> "ourairports", capitalize |-> "Ourairports"])
    @@ ("LEGACY" :> [len |-> 6, lower |-> "legacy", capitalize |-> "Legacy"])
    @@ ("wiki" :> [len |-> 4, lower |-> "wiki", capitalize |-> "Wiki"])
    @@ ("user" :> [len |-> 4, lower |-> "user", capitalize |-> "User"])
    @@ ("extra" :> [len |-> 5, lower |-> "extra", capitalize |-> "Extra"])
    @@ ("U1" :> [len |-> 2, lower |-> "u1", capitalize |-> "U1"])
    @@ ("U2" :> [len |-> 2, lower |-> "u2", capitalize |-> "U2"])
    @@ ("Abc" :> [len |-> 3, lower |-> "abc", capitalize |-> "Abc"])
    @@ ("b" :> [len |-> 1, lower |-> "b", capitalize |-> "B"])
    @@ ("adt" :> [len |-> 3, lower |-> "adt", capitalize |-> "Adt"])
    @@ ("Chd" :> [len |-> 3, lower |-> "chd", capitalize |-> "Chd"])
    @@ ("inf" :> [len |-> 3, lower |-> "inf", capitalize |-> "Inf"])
    @@ ("confirmed" :> [len |-> 9, lower |-> "confirmed", capitalize |-> "Confirmed"])
    @@ ("Confirmed" :> [len |-> 9, lower |-> "confirmed", capitalize |-> "Confirmed"])
    @@ ("Cancelled" :> [len |-> 9, lower |-> "cancelled", capitalize |-> "Cancelled"])
    @@ ("waitinglist" :> [len |-> 11, lower |-> "waitinglist", capitalize |-> "Waitinglist"])
    @@ ("Waitinglist" :> [len |-> 11, lower |-> "waitinglist", capitalize |-> "Waitinglist"])
    @@ ("booked" :> [len |-> 6, lower |-> "booked", capitalize |-> "Booked"])
    @@ ("Booked" :> [len |-> 6, lower |-> "booked", capitalize |-> "Booked"])
    @@ ("aa" :> [len |-> 2, lower |-> "aa", capitalize |-> "Aa"])
    @@ ("Aa" :> [len |-> 2, lower |-> "aa", capitalize |-> "Aa"])
    @@ ("ba" :> [len |-> 2, lower |-> "ba", capitalize |-> "Ba"])
    @@ ("Ba" :> [len |-> 2, lower |-> "ba", capitalize |-> "Ba"])
    @@ ("aaa" :> [len |-> 3, lower |-> "aaa", capitalize |-> "Aaa"])
    @@ ("Aaa" :> [len |-> 3, lower |-> "aaa", capitalize |-> "Aaa"])
    @@ ("jfk" :> [len |-> 3, lower |-> "jfk", capitalize |-> "Jfk"])
    @@ ("Jfk" :> [len |-> 3, lower |-> "jfk", capitalize |-> "Jfk"])
    @@ ("lhr" :> [len |-> 3, lower |-> "lhr", capitalize |-> "Lhr"])
    @@ ("Lhr" :> [len |-> 3, lower |-> "lhr", capitalize |-> "Lhr"])
    @@ ("lhrx" :> [len |-> 4, lower |-> "lhrx", capitalize |-> "Lhrx"])
    @@ ("Lhrx" :> [len |-> 4, lower |-> "lhrx", capitalize |-> "Lhrx"])
    @@ ("lh" :> [len |-> 2, lower |-> "lh", capitalize |-> "Lh"])
    @@ ("Lh" :> [len |-> 2, lower |-> "lh", capitalize |-> "Lh"])
    @@ ("2024-05-01t10:00:00z" :> [len |-> 20, lower |-> "2024-05-01t10:00:00z", capitalize |-> "2024-05-01t10:00:00z"])
    @@ ("2024-05-01t10:00:00.123456z" :> [len |-> 27, lower |-> "2024-05-01t10:00:00.123456z", capitalize |-> "2024-05-01t10:00:00.123456z"])
    @@ ("2024-5-1t1:2:3z" :> [len |-> 15, lower |-> "2024-5-1t1:2:3z", capitalize |-> "2024-5-1t1:2:3z"])
    @@ ("john f kennedy intl" :> [len |-> 19, lower |-> "john f kennedy intl", capitalize |-> "John f kennedy intl"])
    @@ ("John f kennedy intl" :> [len |-> 19, lower |-> "john f kennedy intl", capitalize |-> "John f kennedy intl"])
    @@ ("new york" :> [len |-> 8, lower |-> "new york", capitalize |-> "New york"])
    @@ ("New york" :> [len |-> 8, lower |-> "new york", capitalize |-> "New york"])
    @@ ("united states" :> [len |-> 13, lower |-> "united states", capitalize |-> "United states"])
    @@ ("United states" :> [len |-> 13, lower |-> "united states", capitalize |-> "United states"])
    @@ ("kjfk" :> [len |-> 4, lower |-> "kjfk", capitalize |-> "Kjfk"])
    @@ ("Kjfk" :> [len |-> 4, lower |-> "kjfk", capitalize |-> "Kjfk"])
    @@ ("kjf" :> [len |-> 3, lower |-> "kjf", capitalize |-> "Kjf"])
    @@ ("Kjf" :> [len |-> 3, lower |-> "kjf", capitalize |-> "Kjf"])
    @@ ("Nan" :> [len |-> 3, lower |-> "nan", capitalize |-> "Nan"])
    @@ ("america/new_york" :> [len |-> 16, lower |-> "america/new_york", capitalize |-> "America/new_york"])
    @@ ("America/new_york" :> [len |-> 16, lower |-> "america/new_york", capitalize |-> "America/new_york"])
    @@ ("mars/phobos" :> [len |-> 11, lower |-> "mars/phobos", capitalize |-> "Mars/phobos"])
    @@ ("Mars/phobos" :> [len |-> 11, lower |-> "mars/phobos", capitalize |-> "Mars/phobos"])
    @@ ("Airport" :> [len |-> 7, lower |-> "airport", capitalize |-> "Airport"])
    @@ ("Heliport" :> [len |-> 8, lower |-> "heliport", capitalize |-> "Heliport"])
    @@ ("station" :> [len |-> 7, lower |-> "station", capitalize |-> "Station"])
    @@ ("ourairports" :> [len |-> 11, lower |-> "ourairports", capitalize |-> "Ourairports"])
    @@ ("Ourairports" :> [len |-> 11, lower |-> "ourairports", capitalize |-> "Ourairports"])
    @@ ("legacy" :> [len |-> 6, lower |-> "legacy", capitalize |-> "Legacy"])
    @@ ("Legacy" :> [len |-> 6, lower |-> "legacy", capitalize |-> "Legacy"])
    @@ ("Wiki" :> [len |-> 4, lower |-> "wiki", capitalize |-> "Wiki"])
    @@ ("User" :> [len |-> 4, lower |-> "user", capitalize |-> "User"])
    @@ ("Extra" :> [len |-> 5, lower |-> "extra", capitalize |-> "Extra"])

\* x.lower(): AttributeError unless x is a str.
lower(x) ==
    IF x.t = "str"
    THEN [exc |-> "", val |-> JStr(StrFacts[x.v].lower)]
    ELSE [exc |-> "AttributeError", val |-> None]

\* len(x): TypeError for an object without a length.
len(x) ==
    CASE x.t = "str" -> [exc |-> "", val |-> StrFacts[x.v].len]
      [] x.t = "list" -> [exc |-> "", val |-> Len(x.v)]
      [] x.t = "obj" -> [exc |-> "", val |-> Cardinality(DOMAIN x.v)]
      [] OTHER -> [exc |-> "TypeError", val |-> 0]

\* datetime.strptime(s, fmt) succeeds: the strings of the records that the
\* format accepts (%m, %d, %H, %M, %S accept one digit, %f one to six).
FMT_FRACTION == "%Y-%m-%dT%H:%M:%S.%fZ"
FMT_SECONDS == "%Y-%m-%dT%H:%M:%SZ"
strptime(x, fmt) ==
    /\ x.t = "str"
    /\ \/ fmt = FMT_FRACTION /\ x.v \in {"2024-05-01T10:00:00.123456Z"}
       \/ fmt = FMT_SECONDS /\ x.v \in {"2024-05-01T10:00:00Z", "2024-5-1T1:2:3Z"}

(***************************************************************************)
(* Field validators of JSON2CleanTuple.  Each returns the name of the      *)
(* exception it raises, "" when it returns normally.                       *)
(***************************************************************************)
check_timestamp(ts) ==
    IF strptime(ts, FMT_FRACTION) \/ strptime(ts, FMT_SECONDS)
    THEN ""
    ELSE "InvalidTimestampException"

\* 0 | age: defined for int and bool only.
BitOrZero(age) ==
    CASE age.t = "int" -> [exc |-> "", val |-> age.v]
      [] age.t = "bool" -> [exc |-> "", val |-> IF age.v THEN 1 ELSE 0]
      [] OTHER -> [exc |-> "TypeError", val |-> 0]

IntOf(x) == IF x.t = "bool" THEN (IF x.v THEN 1 ELSE 0) ELSE x.v

\* `age < 0 | age > 150` is the chained comparison age < (0 | age) > 150.
check_age(age) ==
    LET r == BitOrZero(age) IN
    IF r.exc # ""
    THEN "InvalidAgeException"
    ELSE IF IntOf(age) < r.val /\ r.val > 150
         THEN "InvalidAgeException"
         ELSE ""

check_passenger_type(passenger_type) ==
    IF passenger_type \notin {JStr("adt"), JStr("chd")}
    THEN "InvalidPassengerTypeException"
    ELSE ""

check_booking_status(booking_status) ==
    IF booking_status \notin {JStr("confirmed"), JStr("cancelled"),
                              JStr("waiting_list"), JStr("on_request"),
                              JStr("seat_available"), JStr("unaccepted")}
    THEN "InvalidBookingStatusException"
    ELSE ""

check_operating_airline(operating_airline) ==
    LET n == len(operating_airline) IN
    IF n.exc # "" \/ n.val # 2
    THEN "InvalidOperatingAirlineException"
    ELSE ""

\* check_iata_code has no return statement: its value is None.
check_iata_code(iata_code) ==
    LET n == len(iata_code) IN
    IF n.exc # "" \/ n.val # 3
    THEN [exc |-> "InvalidIATACodeException", val |-> None]
    ELSE [exc |-> "", val |-> None]

(***************************************************************************)
(* Diagnostics: logging.exception logs at level error, logging.warning at  *)
(* level warning.                                                          *)
(***************************************************************************)
LogEntry(level, what) == [level |-> level, what |-> what]

Output(result, error) == [result |-> result, error |-> error]
NoOutput == Output(None, None)

(***************************************************************************)
(* json2tuple, body of `for passenger in passengers` for one element.      *)
(* Result: exc, the exception that escapes json2tuple ("" if none); keep,  *)
(* whether an entry is appended; entry; log, the diagnostics emitted.      *)
(***************************************************************************)
passenger_body(passenger, ts) ==
    LET u == Subscript(passenger, "uci")
        a == Subscript(passenger, "age")
        p == Subscript(passenger, "passengerType")
        \* age is assigned before check_age and no handler resets it
        age == IF a.exc = "" THEN a.val ELSE None
        age_log == IF a.exc = "KeyError"
                   THEN <<LogEntry("warning", "Missing age")>>
                   ELSE IF check_age(a.val) # ""
                        THEN <<LogEntry("warning", "Invalid age")>>
                        ELSE <<>>
        \* passenger_type is assigned before .lower() and the check
        passenger_type == IF p.exc = "" THEN p.val ELSE None
        low == lower(p.val)
        type_log == IF p.exc = "KeyError"
                    THEN <<LogEntry("warning", "Missing passengerType")>>
                    ELSE IF check_passenger_type(low.val) # ""
                         THEN <<LogEntry("warning", "Invalid passengerType")>>
                         ELSE <<>>
    IN
    IF u.exc = "KeyError"
    THEN [exc |-> "", keep |-> FALSE, entry |-> None,
          log |-> <<LogEntry("error", "Missing uci")>>]
    ELSE IF u.exc # ""
    THEN [exc |-> u.exc, keep |-> FALSE, entry |-> None, log |-> <<>>]
    ELSE IF p.exc = "" /\ low.exc # ""
    THEN [exc |-> low.exc, keep |-> FALSE, entry |-> None, log |-> age_log]
    ELSE [exc |-> "", keep |-> TRUE,
          entry |-> [timestamp |-> ts, uci |-> u.val, age |-> age,
                     passenger_type |-> passenger_type],
          log |-> age_log \o type_log]

(***************************************************************************)
(* json2tuple, body of `for product in products` for one element.          *)
(***************************************************************************)
Drop(what) == [exc |-> "", keep |-> FALSE, entry |-> None,
               log |-> <<LogEntry("error", what)>>]
Escape(e) == [exc |-> e, keep |-> FALSE, entry |-> None, log |-> <<>>]

\* Mutant of airport_code: the handler of an invalid code does not reset it.
airport_code_not_reset(flight, key) ==
    LET r == Subscript(flight, key) IN
    IF r.exc = "KeyError"
    THEN [val |-> None, log |-> <<LogEntry("warning", "Missing " \o key)>>]
    ELSE IF check_iata_code(r.val).exc # ""
         THEN [val |-> r.val, log |-> <<LogEntry("warning", "Invalid " \o key)>>]
         ELSE [val |-> check_iata_code(r.val).val, log |-> <<>>]

\* One nullable airport code: the value placed in the entry and the warning.
airport_code(flight, key) ==
    LET r == Subscript(flight, key) IN
    IF r.exc = "KeyError"
    THEN [val |-> None, log |-> <<LogEntry("warning", "Missing " \o key)>>]
    ELSE IF check_iata_code(r.val).exc # ""
         THEN [val |-> None, log |-> <<LogEntry("warning", "Invalid " \o key)>>]
         ELSE [val |-> check_iata_code(r.val).val, log |-> <<>>]

\* Mutant of flight_date: a missing date is fatal to the product like a
\* malformed one.
flight_date_required(flight, key) ==
    LET r == Subscript(flight, key) IN
    IF r.exc = "KeyError"
    THEN [drop |-> TRUE, val |-> None,
          log |-> <<LogEntry("error", "Missing " \o key)>>]
    ELSE IF check_timestamp(r.val) # ""
         THEN [drop |-> TRUE, val |-> r.val,
               log |-> <<LogEntry("error", "Invalid " \o key)>>]
         ELSE [drop |-> FALSE, val |-> r.val, log |-> <<>>]

\* One date: absent is accepted as None, present and malformed drops the product.
flight_date(flight, key) ==
    LET r == Subscript(flight, key) IN
    IF r.exc = "KeyError"
    THEN [drop |-> FALSE, val |-> None,
          log |-> <<LogEntry("warning", "Missing " \o key)>>]
    ELSE IF check_timestamp(r.val) # ""
         THEN [drop |-> TRUE, val |-> r.val,
               log |-> <<LogEntry("error", "Invalid " \o key)>>]
         ELSE [drop |-> FALSE, val |-> r.val, log |-> <<>>]

product_body(product) ==
    LET f == Subscript(product, "flight")
        flight == f.val
        b == Subscript(product, "bookingStatus")
        low == lower(b.val)
        o == Subscript(flight, "operatingAirline")
        origin == airport_code(flight, "originAirport")
        destination == airport_code(flight, "destinationAirport")
        departure == flight_date(flight, "departureDate")
        arrival == flight_date(flight, "arrivalDate")
    IN
    IF f.exc = "KeyError" THEN Drop("Missing flight")
    ELSE IF f.exc # "" THEN Escape(f.exc)
    ELSE IF b.exc = "KeyError" THEN Drop("Missing bookingStatus")
    ELSE IF low.exc # "" THEN Escape(low.exc)
    ELSE IF check_booking_status(low.val) # "" THEN Drop("Invalid bookingStatus")
    ELSE IF o.exc = "KeyError" THEN Drop("Missing operatingAirline")
    ELSE IF o.exc # "" THEN Escape(o.exc)
    ELSE IF check_operating_airline(o.val) # "" THEN Drop("Invalid operatingAirline")
    ELSE IF departure.drop
    THEN [exc |-> "", keep |-> FALSE, entry |-> None,
          log |-> origin.log \o destination.log \o departure.log]
    ELSE IF arrival.drop
    THEN [exc |-> "", keep |-> FALSE, entry |-> None,
          log |-> origin.log \o destination.log \o departure.log \o arrival.log]
    ELSE [exc |-> "", keep |-> TRUE,
          entry |-> [booking_status |-> b.val,
                     operating_airline |-> o.val,
                     origin_airport |-> origin.val,
                     destination_airport |-> destination.val,
                     departure_date |-> departure.val,
                     arrival_date |-> arrival.val],
          log |-> origin.log \o destination.log \o departure.log \o arrival.log]

\* The items a for loop draws from x.  A str yields one-character strs and a
\* dict yields its keys (strs); which characters is not modelled, only that
\* every item is a str.  Other types are not iterable.
Iterate(x) ==
    CASE x.t = "list" -> [exc |-> "", items |-> x.v]
      [] x.t = "str" -> [exc |-> "", items |-> [i \in 1..len(x).val |-> JStr("x")]]
      [] x.t = "obj" -> [exc |-> "", items |-> [i \in 1..len(x).val |-> JStr("x")]]
      [] OTHER -> [exc |-> "TypeError", items |-> <<>>]

\* p | f for dicts: the keys of both, f's value where both have the key.
DictUnion(p, f) ==
    [k \in DOMAIN p \cup DOMAIN f |-> IF k \in DOMAIN f THEN f[k] ELSE p[k]]

\* Mutant of cross_product: zip instead of itertools.product.
cross_product_zip(ps, fs) ==
    [n \in 1..(IF Len(ps) < Len(fs) THEN Len(ps) ELSE Len(fs)) |->
        DictUnion(ps[n], fs[n])]

\* list(itertools.product(ps, fs)) mapped through i[0] | i[1]: passengers in
\* the outer loop, flights in the inner.
cross_product(ps, fs) ==
    [n \in 1..(Len(ps) * Len(fs)) |->
        DictUnion(ps[((n - 1) \div Len(fs)) + 1], fs[((n - 1) % Len(fs)) + 1])]

(***************************************************************************)
(* Booking records handed to JSON2CleanTuple.process.                      *)
(***************************************************************************)
MaxPassengers == 2
MaxProducts == 2

TS_SECONDS == JStr("2024-05-01T10:00:00Z")
TS_FRACTION == JStr("2024-05-01T10:00:00.123456Z")
TS_SHORT == JStr("2024-5-1T1:2:3Z")
TS_MALFORMED == JStr("2024-05-01 10:00:00")

SetKey(obj, k, val) == JObj(With(obj.v, k, val))
DelKey(obj, k) == JObj(Without(obj.v, k))

P_OK == JObj([uci |-> JStr("u1"), age |-> JInt(30), passengerType |-> JStr("Adt")])

UciValues == {None, JStr("u2")}
AgeValues == {None, JInt(-1), JInt(150), JInt(151), JStr("x"), Float(FALSE, 1, 500000000, <<>>), JBool(TRUE)}
PassengerTypeValues == {None, JStr("ADT"), JStr("chd"), JStr("Inf"), JInt(5)}

\* A valid passenger, every change of one field of it, and a non-dict.
PassengerSamples ==
    {P_OK, JInt(1)}
    \cup {DelKey(P_OK, k) : k \in {"uci", "age", "passengerType"}}
    \cup {SetKey(P_OK, "uci", x) : x \in UciValues}
    \cup {SetKey(P_OK, "age", x) : x \in AgeValues}
    \cup {SetKey(P_OK, "passengerType", x) : x \in PassengerTypeValues}
    \cup {JObj([uci |-> None, age |-> JInt(151), passengerType |-> JStr("Inf")])}

FL_OK == JObj([operatingAirline |-> JStr("AA"),
               originAirport |-> JStr("JFK"),
               destinationAirport |-> JStr("LHR"),
               departureDate |-> TS_SECONDS,
               arrivalDate |-> TS_FRACTION])
F_OK == JObj([bookingStatus |-> JStr("CONFIRMED"), flight |-> FL_OK])

BookingStatusValues == {None, JInt(5), JStr("cancelled"), JStr("WaitingList"), JStr("BOOKED")}
OperatingAirlineValues == {None, JInt(5), JStr("AAA"), JStr("BA"), JList(<<JStr("A"), JStr("B")>>)}
AirportCodeValues == {None, JStr("LHRX"), JStr("LH")}
DateValues == {None, TS_MALFORMED}

FlightSamples ==
    {FL_OK}
    \cup {DelKey(FL_OK, k) : k \in DOMAIN FL_OK.v}
    \cup {SetKey(FL_OK, "operatingAirline", x) : x \in OperatingAirlineValues}
    \cup {SetKey(FL_OK, "originAirport", x) : x \in AirportCodeValues}
    \cup {SetKey(FL_OK, "destinationAirport", x) : x \in AirportCodeValues}
    \cup {SetKey(FL_OK, "departureDate", x) : x \in DateValues}
    \cup {SetKey(FL_OK, "arrivalDate", x) : x \in DateValues}
    \cup {DelKey(DelKey(FL_OK, "departureDate"), "arrivalDate"),
          DelKey(SetKey(FL_OK, "destinationAirport", JStr("LH")), "originAirport"),
          SetKey(DelKey(FL_OK, "departureDate"), "arrivalDate", TS_MALFORMED)}

\* A valid product, every change of one field of it, and non-dicts.
ProductSamples ==
    {JInt(1), DelKey(F_OK, "flight"), DelKey(F_OK, "bookingStatus"),
     SetKey(F_OK, "flight", None), SetKey(F_OK, "flight", JStr("abc"))}
    \cup {SetKey(F_OK, "bookingStatus", x) : x \in BookingStatusValues}
    \cup {SetKey(F_OK, "flight", x) : x \in FlightSamples}

\* Lists the other list is paired with while one list ranges over all samples.
RefPassengerLists ==
    {<<P_OK>>,
     <<P_OK, SetKey(P_OK, "uci", JStr("u2"))>>,
     <<DelKey(P_OK, "uci")>>}
RefProductLists ==
    {<<F_OK>>,
     <<F_OK, SetKey(F_OK, "bookingStatus", JStr("cancelled"))>>,
     <<DelKey(F_OK, "flight")>>}

Travelrecord(rec) == JObj([DataElement |-> JObj([travelrecord |-> rec])])
MkDoc(ts, pl, fl) ==
    JObj([timestamp |-> ts,
          event |-> Travelrecord(JObj([passengersList |-> pl, productsList |-> fl]))])

\* Values found where a list is expected.
NonLists == {None, JList(<<>>), JStr("abc"), JStr(""), JInt(5), JInt(0), EmptyDict,
             JObj([uci |-> JStr("u1")])}
TimestampValues == {None, JInt(5), TS_MALFORMED, TS_FRACTION, TS_SHORT}

GOOD_DOC == MkDoc(TS_SECONDS, JList(<<P_OK>>), JList(<<F_OK>>))
GOOD_REC == JObj([passengersList |-> JList(<<P_OK>>), productsList |-> JList(<<F_OK>>)])

ShapeDocs ==
    {None, JInt(5), JStr("abc"), JList(<<>>), EmptyDict, DelKey(GOOD_DOC, "timestamp"),
     DelKey(GOOD_DOC, "event"), SetKey(GOOD_DOC, "event", None),
     SetKey(GOOD_DOC, "event", EmptyDict),
     SetKey(GOOD_DOC, "event", JObj([DataElement |-> EmptyDict])),
     SetKey(GOOD_DOC, "event", Travelrecord(JStr("abc"))),
     SetKey(GOOD_DOC, "event", Travelrecord(DelKey(GOOD_REC, "passengersList"))),
     SetKey(GOOD_DOC, "event", Travelrecord(DelKey(GOOD_REC, "productsList"))),
     SetKey(GOOD_DOC, "event", Travelrecord(EmptyDict))}
    \cup {MkDoc(ts, JList(pl), JList(fl)) :
            ts \in TimestampValues, pl \in RefPassengerLists, fl \in RefProductLists}
    \cup {MkDoc(ts, pl, fl) :
            ts \in {TS_SECONDS, TS_MALFORMED},
            pl \in NonLists \cup {JList(<<P_OK>>)},
            fl \in NonLists \cup {JList(<<F_OK>>)}}

\* The raw text: a JSON document, or text json.loads rejects.
JsonText(d) == [valid_json |-> TRUE, value |-> d]
NOT_JSON == [valid_json |-> FALSE, value |-> JStr("abc")]

\* The records: every passenger list up to MaxPassengers with a reference
\* product list, every product list up to MaxProducts with a reference
\* passenger list, the malformed shapes, and text that is not JSON.
IsBookingElement(e) ==
    \/ \E k \in 1..MaxPassengers : \E pl \in [1..k -> PassengerSamples] :
         \E fl \in RefProductLists :
            e = JsonText(MkDoc(TS_SECONDS, JList(pl), JList(fl)))
    \/ \E k \in 1..MaxProducts : \E fl \in [1..k -> ProductSamples] :
         \E pl \in RefPassengerLists :
            e = JsonText(MkDoc(TS_SECONDS, JList(pl), JList(fl)))
    \/ \E d \in ShapeDocs : e = JsonText(d)
    \/ e = NOT_JSON

json_loads(e) ==
    IF e.valid_json
    THEN [exc |-> "", val |-> e.value]
    ELSE [exc |-> "JSONDecodeError", val |-> None]

(***************************************************************************)
(* JSON2CleanTuple: json2tuple block by block, then process.               *)
(***************************************************************************)
ERR_INVALID_JSON == "Invalid json"
ERR_INVALID_TIMESTAMP == "Invalid timestamp"
ERR_MISSING_TIMESTAMP == "Missing timestamp"
ERR_PASSENGERS == "Missing or empty list of passengers"
ERR_PRODUCTS == "Missing or empty list of products"
\* The two literals below continue over a line break inside the quotes, so
\* the quote characters and the indentation are part of the string.
ERR_NO_PASSENGER == "Empty passenger list after processing \"                          \"non-empty json passenger list"
ERR_NO_FLIGHT == "Empty flight list \"                                     \"after processing non-empty json \"                                     \"product list"

PROPER_BOOKING == "proper_booking"
INCORRECT_BOOKING == "incorrect_booking"

Return(out, entries) ==
    /\ output' = out
    /\ log' = log \o entries
    /\ pc' = "returned"
    /\ UNCHANGED <<exc, idx>>

Raise(e, entries) ==
    /\ exc' = e
    /\ log' = log \o entries
    /\ pc' = "raised"
    /\ UNCHANGED <<output, idx>>

Goto(label, entries) ==
    /\ pc' = label
    /\ log' = log \o entries
    /\ UNCHANGED <<output, exc>>

\* bookings['event']['DataElement']['travelrecord'][key]
travelrecord_list(doc, key) ==
    LET e == Subscript(doc, "event")
        d == Subscript(e.val, "DataElement")
        r == Subscript(d.val, "travelrecord")
        l == Subscript(r.val, key)
    IN
    IF e.exc # "" THEN e
    ELSE IF d.exc # "" THEN d
    ELSE IF r.exc # "" THEN r
    ELSE l

LoadJson ==
    /\ pc = "json_loads"
    /\ LET r == json_loads(element) IN
       IF r.exc # ""
       THEN /\ Return(Output(None, JStr(ERR_INVALID_JSON)),
                      <<LogEntry("error", "Invalid json")>>)
            /\ UNCHANGED bookings
       ELSE /\ bookings' = r.val
            /\ Goto("timestamp", <<>>)
            /\ UNCHANGED idx
    /\ UNCHANGED <<element, timestamp, passengers, products, passenger_entries,
                   flight_entries, airport, emitted,
                   suspended, started>>

CheckTimestamp ==
    /\ pc = "timestamp"
    /\ LET r == Subscript(bookings, "timestamp") IN
       IF r.exc = "KeyError"
       THEN /\ Return(Output(None, JStr(ERR_MISSING_TIMESTAMP)),
                      <<LogEntry("error", "Missing timestamp")>>)
            /\ UNCHANGED timestamp
       ELSE IF r.exc # ""
       THEN /\ Raise(r.exc, <<>>)
            /\ UNCHANGED timestamp
       ELSE IF check_timestamp(r.val) # ""
       THEN /\ Return(Output(None, JStr(ERR_INVALID_TIMESTAMP)),
                      <<LogEntry("error", "Invalid timestamp")>>)
            /\ timestamp' = r.val
       ELSE /\ timestamp' = r.val
            /\ Goto("passengers", <<>>)
            /\ UNCHANGED idx
    /\ UNCHANGED <<element, bookings, passengers, products, passenger_entries,
                   flight_entries, airport, emitted,
                   suspended, started>>

\* Mutant of GetPassengers: the list of passengers is read and not tested.
GetPassengers_unchecked ==
    /\ pc = "passengers"
    /\ LET r == travelrecord_list(bookings, "passengersList") IN
       /\ passengers' = IF r.exc = "" THEN r.val ELSE passengers
       /\ Goto("products", <<>>)
       /\ UNCHANGED idx
    /\ UNCHANGED <<element, bookings, timestamp, products, passenger_entries,
                   flight_entries, airport, emitted,
                   suspended, started>>

GetPassengers ==
    /\ pc = "passengers"
    /\ LET r == travelrecord_list(bookings, "passengersList") IN
       IF r.exc # "" \/ ~Truthy(r.val)
       THEN /\ Return(Output(None, JStr(ERR_PASSENGERS)),
                      <<LogEntry("error", "Problem with the list of passengers")>>)
            /\ passengers' = IF r.exc = "" THEN r.val ELSE passengers
       ELSE /\ passengers' = r.val
            /\ Goto("products", <<>>)
            /\ UNCHANGED idx
    /\ UNCHANGED <<element, bookings, timestamp, products, passenger_entries,
                   flight_entries, airport, emitted,
                   suspended, started>>

\* Mutant of GetProducts: passenger_entries is not emptied before the loop.
GetProducts_entries_kept ==
    /\ pc = "products"
    /\ LET r == travelrecord_list(bookings, "productsList") IN
       IF r.exc # "" \/ ~Truthy(r.val)
       THEN /\ Return(Output(None, JStr(ERR_PRODUCTS)),
                      <<LogEntry("error", "Problem with the list of products")>>)
            /\ products' = IF r.exc = "" THEN r.val ELSE products
            /\ UNCHANGED <<passenger_entries>>
       ELSE /\ products' = r.val
            /\ UNCHANGED passenger_entries
            /\ pc' = "passenger_loop"
            /\ idx' = 1
            /\ UNCHANGED <<output, exc, log>>
    /\ UNCHANGED <<element, bookings, timestamp, passengers, flight_entries,
                   airport, emitted,
                   suspended, started>>

GetProducts ==
    /\ pc = "products"
    /\ LET r == travelrecord_list(bookings, "productsList") IN
       IF r.exc # "" \/ ~Truthy(r.val)
       THEN /\ Return(Output(None, JStr(ERR_PRODUCTS)),
                      <<LogEntry("error", "Problem with the list of products")>>)
            /\ products' = IF r.exc = "" THEN r.val ELSE products
            /\ UNCHANGED <<passenger_entries>>
       ELSE /\ products' = r.val
            /\ passenger_entries' = <<>>
            /\ pc' = "passenger_loop"
            /\ idx' = 1
            /\ UNCHANGED <<output, exc, log>>
    /\ UNCHANGED <<element, bookings, timestamp, passengers, flight_entries,
                   airport, emitted,
                   suspended, started>>

\* One round of `for passenger in passengers`; when the items are used up,
\* the check of passenger_entries that follows the loop.
ForPassenger ==
    /\ pc = "passenger_loop"
    /\ LET it == Iterate(passengers) IN
       IF it.exc # ""
       THEN /\ Raise(it.exc, <<>>)
            /\ UNCHANGED <<passenger_entries, flight_entries>>
       ELSE IF idx <= Len(it.items)
       THEN LET r == passenger_body(it.items[idx], timestamp) IN
            IF r.exc # ""
            THEN /\ Raise(r.exc, r.log)
                 /\ UNCHANGED <<passenger_entries, flight_entries>>
            ELSE /\ passenger_entries' =
                        IF r.keep THEN Append(passenger_entries, r.entry)
                        ELSE passenger_entries
                 /\ idx' = idx + 1
                 /\ log' = log \o r.log
                 /\ UNCHANGED <<pc, output, exc, flight_entries>>
       ELSE IF passenger_entries = <<>>
       THEN /\ Return(Output(None, JStr(ERR_NO_PASSENGER)), <<>>)
            /\ UNCHANGED <<passenger_entries, flight_entries>>
       ELSE /\ flight_entries' = <<>>
            /\ pc' = "product_loop"
            /\ idx' = 1
            /\ UNCHANGED <<passenger_entries, output, exc, log>>
    /\ UNCHANGED <<element, bookings, timestamp, passengers, products, airport, emitted,
                   suspended, started>>

\* One round of `for product in products`; when the items are used up, the
\* check of flight_entries and the cross product.
ForProduct ==
    /\ pc = "product_loop"
    /\ LET it == Iterate(products) IN
       IF it.exc # ""
       THEN /\ Raise(it.exc, <<>>)
            /\ UNCHANGED flight_entries
       ELSE IF idx <= Len(it.items)
       THEN LET r == product_body(it.items[idx]) IN
            IF r.exc # ""
            THEN /\ Raise(r.exc, r.log)
                 /\ UNCHANGED flight_entries
            ELSE /\ flight_entries' =
                        IF r.keep THEN Append(flight_entries, r.entry)
                        ELSE flight_entries
                 /\ idx' = idx + 1
                 /\ log' = log \o r.log
                 /\ UNCHANGED <<pc, output, exc>>
       ELSE IF flight_entries = <<>>
       THEN /\ Return(Output(None, JStr(ERR_NO_FLIGHT)), <<>>)
            /\ UNCHANGED flight_entries
       ELSE /\ Return(Output([t |-> "generator",
                              v |-> cross_product(passenger_entries, flight_entries)],
                             None), <<>>)
            /\ UNCHANGED flight_entries
    /\ UNCHANGED <<element, bookings, timestamp, passengers, products,
                   passenger_entries, airport, emitted,
                   suspended, started>>

\* str(x) of a value process puts in the rejection.
str(x) == IF x.t = "null" THEN JStr("None") ELSE x

TaggedOutput(tag, value) == [tag |-> tag, value |-> value]

\* process putting the parsed document, not the input text, in the rejection.
booking_process_parsed(el, out) ==
    IF Truthy(out.result)
    THEN TaggedOutput(PROPER_BOOKING, [t |-> "tuple", v |-> out.result.v])
    ELSE TaggedOutput(INCORRECT_BOOKING,
                      [json |-> json_loads(el).val, error |-> str(out.error)])

\* JSON2CleanTuple.process after json2tuple has returned.
booking_process(el, out) ==
    IF Truthy(out.result)
    THEN TaggedOutput(PROPER_BOOKING, [t |-> "tuple", v |-> out.result.v])
    ELSE TaggedOutput(INCORRECT_BOOKING, [json |-> el, error |-> str(out.error)])

ProcessBooking ==
    /\ pc = "returned"
    /\ emitted' = Append(emitted, booking_process(element, output))
    /\ pc' = "done"
    /\ UNCHANGED <<element, bookings, timestamp, passengers, products, idx,
                   passenger_entries, flight_entries, airport, output, exc, log,
                   suspended, started>>

\* The locals of a call, and those of a worker that has not been called yet.
Frame ==
    [element |-> element, pc |-> pc, bookings |-> bookings, timestamp |-> timestamp,
     passengers |-> passengers, products |-> products, idx |-> idx,
     passenger_entries |-> passenger_entries, flight_entries |-> flight_entries,
     airport |-> airport, output |-> output, exc |-> exc]
IdleFrame ==
    [element |-> None, pc |-> "idle", bookings |-> None, timestamp |-> None,
     passengers |-> None, products |-> None, idx |-> 0,
     passenger_entries |-> <<>>, flight_entries |-> <<>>,
     airport |-> None, output |-> NoOutput, exc |-> ""]

BookingInit ==
    /\ IsBookingElement(element)
    /\ pc = "json_loads"
    /\ bookings = None
    /\ timestamp = None
    /\ passengers = None
    /\ products = None
    /\ idx = 0
    /\ passenger_entries = <<>>
    /\ flight_entries = <<>>
    /\ airport = None
    /\ output = NoOutput
    /\ emitted = <<>>
    /\ exc = ""
    /\ log = <<>>
    /\ suspended = IdleFrame
    /\ started = 1

BookingNext ==
    \/ LoadJson
    \/ CheckTimestamp
    \/ GetPassengers
    \/ GetProducts
    \/ ForPassenger
    \/ ForProduct
    \/ ProcessBooking

BookingSpec == BookingInit /\ [][BookingNext]_vars

(***************************************************************************)
(* Properties of JSON2CleanTuple.                                          *)
(***************************************************************************)
Ended == pc \in {"done", "raised"}

\* The clean rows json2tuple returned (none for a rejection).
Rows == IF output.result.t = "generator" THEN output.result.v ELSE <<>>

IsRejection(out, reason) ==
    /\ out.tag = INCORRECT_BOOKING
    /\ out.value.json = element
    /\ out.value.error = JStr(reason)

\* C1: for every input, process emits exactly one tagged output: a
\* proper_booking with a non-empty sequence of rows or an incorrect_booking
\* with one {json, error} pair; never both, never neither.
C1_ExactlyOneTaggedOutput ==
    Ended =>
        /\ Len(emitted) = 1
        /\ IF emitted[1].tag = PROPER_BOOKING
           THEN Len(emitted[1].value.v) >= 1
           ELSE /\ emitted[1].tag = INCORRECT_BOOKING
                /\ DOMAIN emitted[1].value = {"json", "error"}

\* C3: when m >= 1 passengers and n >= 1 flights survive, the clean output
\* is exactly m*n rows, one for each (passenger, flight) pair, and every row
\* carries the event's top-level timestamp.
C3_CrossProduct ==
    (pc \in {"returned", "done"} /\ passenger_entries # <<>> /\ flight_entries # <<>>) =>
        LET m == Len(passenger_entries)
            n == Len(flight_entries)
        IN
        /\ output.error = None
        /\ output.result.t = "generator"
        /\ Len(Rows) = m * n
        /\ \A i \in 1..m : \A j \in 1..n :
             LET row == Rows[(i - 1) * n + j] IN
             /\ \A k \in DOMAIN passenger_entries[i] : row[k] = passenger_entries[i][k]
             /\ \A k \in DOMAIN flight_entries[j] : row[k] = flight_entries[j][k]
             /\ row.timestamp = bookings.v.timestamp
        /\ pc = "done" =>
             emitted = <<TaggedOutput(PROPER_BOOKING, [t |-> "tuple", v |-> Rows])>>

C3_Witness ==
    /\ pc = "done"
    /\ Len(passenger_entries) = 2
    /\ Len(flight_entries) = 2
    /\ passenger_entries[1] = passenger_entries[2]
    /\ emitted[1].tag = PROPER_BOOKING
    /\ Len(emitted[1].value.v) = 4

\* C4: for every input string json2tuple returns an Output and no exception
\* escapes to the caller.
C4_NoExceptionEscapes ==
    /\ exc = ""
    /\ pc # "raised"

\* C5: in every clean row uci is present and not null.
C5_UciNeverNull ==
    \A n \in 1..Len(Rows) : "uci" \in DOMAIN Rows[n] /\ Rows[n].uci # None

\* C6: in every clean row age is null or an integer in 0..150; the raw
\* invalid value never appears.
C6_AgeNullOrInRange ==
    \A n \in 1..Len(Rows) :
        \/ Rows[n].age = None
        \/ Rows[n].age.t = "int" /\ Rows[n].age.v >= 0 /\ Rows[n].age.v <= 150

\* C7: in every clean row passenger_type is null or one of Adt / Chd in any
\* letter case; the raw invalid value never appears.
C7_PassengerTypeNullOrEnum ==
    \A n \in 1..Len(Rows) :
        \/ Rows[n].passenger_type = None
        \/ /\ Rows[n].passenger_type.t = "str"
           /\ StrFacts[Rows[n].passenger_type.v].lower \in {"adt", "chd"}

\* A product as section 4.3 accepts it: a flight object, a bookingStatus of
\* the enumeration, a 2-character operatingAirline, no malformed date.
DateAcceptable(fl, key) == key \notin DOMAIN fl.v \/ check_timestamp(fl.v[key]) = ""
ValidProduct(q) ==
    /\ q.t = "obj"
    /\ "flight" \in DOMAIN q.v
    /\ q.v.flight.t = "obj"
    /\ "bookingStatus" \in DOMAIN q.v
    /\ q.v.bookingStatus.t = "str"
    /\ check_booking_status(JStr(StrFacts[q.v.bookingStatus.v].lower)) = ""
    /\ "operatingAirline" \in DOMAIN q.v.flight.v
    /\ q.v.flight.v.operatingAirline.t = "str"
    /\ StrFacts[q.v.flight.v.operatingAirline.v].len = 2
    /\ DateAcceptable(q.v.flight, "departureDate")
    /\ DateAcceptable(q.v.flight, "arrivalDate")

\* The passenger loop runs to its end and leaves a passenger.
PassengersSurvive ==
    /\ passengers.t = "list"
    /\ \A i \in 1..Len(passengers.v) :
         /\ passengers.v[i].t = "obj"
         /\ "passengerType" \in DOMAIN passengers.v[i].v =>
                passengers.v[i].v.passengerType.t = "str"
    /\ \E i \in 1..Len(passengers.v) : "uci" \in DOMAIN passengers.v[i].v

\* C8: an invalid product is dropped without affecting the other products
\* or the passengers: with k valid products and m surviving passengers the
\* output is m*k rows, and the event is rejected for its products only when
\* k = 0.
C8_InvalidProductOnlyDropped ==
    (Ended /\ PassengersSurvive /\ products.t = "list" /\ Len(products.v) > 0) =>
        LET k == Cardinality({i \in 1..Len(products.v) : ValidProduct(products.v[i])})
            m == Len(passenger_entries)
        IN
        /\ exc = ""
        /\ Len(emitted) = 1
        /\ IF k = 0
           THEN IsRejection(emitted[1], ERR_NO_FLIGHT)
           ELSE /\ emitted[1].tag = PROPER_BOOKING
                /\ Len(emitted[1].value.v) = m * k

\* The product the next round of the product loop handles.
AtProduct ==
    /\ pc = "product_loop"
    /\ products.t = "list"
    /\ idx <= Len(products.v)
    /\ products.v[idx].t = "obj"
    /\ "flight" \in DOMAIN products.v[idx].v
    /\ products.v[idx].v.flight.t = "obj"
ThisProduct == products.v[idx]
ThisFlight == products.v[idx].v.flight
Appended == Len(flight_entries') = Len(flight_entries) + 1
NewEntry == flight_entries'[Len(flight_entries')]

PresentMalformed(key) ==
    key \in DOMAIN ThisFlight.v /\ check_timestamp(ThisFlight.v[key]) # ""

\* The product with the field of its flight set to a value.
FlightWith(key, val) == SetKey(ThisProduct, "flight", SetKey(ThisFlight, key, val))

C9_Step ==
    AtProduct =>
        /\ (PresentMalformed("departureDate") \/ PresentMalformed("arrivalDate")) =>
                flight_entries' = flight_entries
        /\ ("departureDate" \notin DOMAIN ThisFlight.v
              /\ product_body(FlightWith("departureDate", TS_SECONDS)).keep) =>
                Appended /\ NewEntry.departure_date = None
        /\ ("arrivalDate" \notin DOMAIN ThisFlight.v
              /\ product_body(FlightWith("arrivalDate", TS_SECONDS)).keep) =>
                Appended /\ NewEntry.arrival_date = None

BadCode(key) ==
    \/ key \notin DOMAIN ThisFlight.v
    \/ ThisFlight.v[key].t # "str"
    \/ StrFacts[ThisFlight.v[key].v].len # 3

C10_Step ==
    AtProduct =>
        /\ (BadCode("originAirport")
              /\ product_body(FlightWith("originAirport", JStr("JFK"))).keep) =>
                Appended /\ NewEntry.origin_airport = None
        /\ (BadCode("destinationAirport")
              /\ product_body(FlightWith("destinationAirport", JStr("LHR"))).keep) =>
                Appended /\ NewEntry.destination_airport = None

\* C10: a product whose originAirport / destinationAirport is missing or not
\* a 3-character code is not dropped for it (it survives whenever it would
\* with a valid code) and the field is null in its entry.
C10_AirportCodeNeverFatal == [][C10_Step]_vars

C10_Witness ==
    /\ pc = "done"
    /\ products.t = "list"
    /\ Len(products.v) = 1
    /\ products.v[1] =
         SetKey(F_OK, "flight",
                DelKey(SetKey(FL_OK, "destinationAirport", JStr("LH")), "originAirport"))
    /\ emitted[1].tag = PROPER_BOOKING
    /\ \A n \in 1..Len(Rows) :
         Rows[n].origin_airport = None /\ Rows[n].destination_airport = None

(***************************************************************************)
(* CSV2CleanDict: floats, field validators, csv2dict, process.             *)
(***************************************************************************)
\* The texts of the records that float() accepts, with their values.
FloatTexts ==
    ("40.639751" :> Float(FALSE, 40, 639751000, <<>>))
    @@ ("90" :> Float(FALSE, 90, 0, <<>>))
    @@ ("-90" :> Float(TRUE, 90, 0, <<>>))
    @@ ("90.5" :> Float(FALSE, 90, 500000000, <<>>))
    @@ ("nan" :> NaN)
    @@ ("40.6397512345678" :> Float(FALSE, 40, 639751234, <<5, 6, 7, 8>>))
    @@ ("-73.778925" :> Float(TRUE, 73, 778925000, <<>>))
    @@ ("180" :> Float(FALSE, 180, 0, <<>>))
    @@ ("-180.5" :> Float(TRUE, 180, 500000000, <<>>))
    @@ ("13" :> Float(FALSE, 13, 0, <<>>))
    @@ ("29528" :> Float(FALSE, 29528, 0, <<>>))
    @@ ("29529" :> Float(FALSE, 29529, 0, <<>>))
    @@ ("-1641" :> Float(TRUE, 1641, 0, <<>>))
    @@ ("-1642" :> Float(TRUE, 1642, 0, <<>>))
    @@ ("-5" :> Float(TRUE, 5, 0, <<>>))
    @@ ("26" :> Float(FALSE, 26, 0, <<>>))
    @@ ("27" :> Float(FALSE, 27, 0, <<>>))
    @@ ("5.75" :> Float(FALSE, 5, 750000000, <<>>))
    @@ ("1.0000000001" :> Float(FALSE, 1, 0, <<1>>))

\* float(x): a float is returned as it is; TypeError for None, ValueError
\* for text that is no number.
float(x) ==
    IF x.t = "float" THEN [exc |-> "", val |-> x]
    ELSE IF x.t # "str" THEN [exc |-> "TypeError", val |-> NaN]
    ELSE IF x.v \in DOMAIN FloatTexts THEN [exc |-> "", val |-> FloatTexts[x.v]]
    ELSE [exc |-> "ValueError", val |-> NaN]

IsZero(f) == f.whole = 0 /\ f.nano = 0 /\ f.rest = <<>>
HasFraction(f) == f.nano # 0 \/ f.rest # <<>>

\* f > n and f < n for an integer n; every comparison with NaN is false.
float_gt(f, n) ==
    /\ ~f.nan
    /\ IF f.neg /\ ~IsZero(f)
       THEN n < 0 /\ f.whole < -n
       ELSE n < 0 \/ f.whole > n \/ (f.whole = n /\ HasFraction(f))
float_lt(f, n) ==
    /\ ~f.nan
    /\ IF f.neg /\ ~IsZero(f)
       THEN n >= 0 \/ f.whole > -n \/ (f.whole = -n /\ HasFraction(f))
       ELSE n > 0 /\ f.whole < n

NANO == 1000000000

\* round(f, 9): to the nearest value with nine decimal digits.
round9(f) ==
    IF f.nan \/ f.rest = <<>> THEN f
    ELSE LET up == IF f.rest[1] >= 5 THEN f.nano + 1 ELSE f.nano IN
         IF up = NANO
         THEN Float(f.neg, f.whole + 1, 0, <<>>)
         ELSE Float(f.neg, f.whole, up, <<>>)

isinstance_str(x) == x.t = "str"

airport_check_iata_code(iata_code) ==
    IF ~isinstance_str(iata_code) \/ len(iata_code).val # 3
    THEN "InvalidIATACodeException" ELSE ""

\* check_icao_code with the length test of check_iata_code.
check_icao_code_len3(icao_code) ==
    IF ~isinstance_str(icao_code) \/ len(icao_code).val # 3
    THEN "InvalidICAOCodeException" ELSE ""

check_icao_code(icao_code) ==
    IF ~isinstance_str(icao_code) \/ len(icao_code).val # 4
    THEN "InvalidICAOCodeException" ELSE ""

\* check_latitude without its `except Exception`: the error of float() or of
\* the range test leaves the function as it is.
check_latitude_uncaught(latitude) ==
    LET f == float(latitude) IN
    IF f.exc # "" THEN f.exc
    ELSE IF float_gt(f.val, 90) \/ float_lt(f.val, -90) THEN "ValueError" ELSE ""

check_latitude(latitude) ==
    LET f == float(latitude) IN
    IF f.exc # "" \/ float_gt(f.val, 90) \/ float_lt(f.val, -90)
    THEN "InvalidLatitudeException" ELSE ""

check_longitude(longitude) ==
    LET f == float(longitude) IN
    IF f.exc # "" \/ float_gt(f.val, 180) \/ float_lt(f.val, -180)
    THEN "InvalidLongitudeException" ELSE ""

check_altitude(altitude) ==
    LET f == float(altitude) IN
    IF f.exc # "" \/ float_gt(f.val, 29528) \/ float_lt(f.val, -1641)
    THEN "InvalidAltitudeException" ELSE ""

check_timezone_hours(timezone_hours) ==
    LET f == float(timezone_hours) IN
    IF f.exc # "" \/ float_lt(f.val, -26) \/ float_gt(f.val, 26)
    THEN "InvalidTimezoneException" ELSE ""

capitalize(x) == JStr(StrFacts[x.v].capitalize)

check_dst(dst) ==
    IF ~isinstance_str(dst)
       \/ capitalize(dst).v \notin {"E", "A", "S", "O", "Z", "N", "U"}
    THEN "InvalidDSTException" ELSE ""

\* available_timezones(): the zone names of the records that are IANA zones.
available_timezones == {"America/New_York"}

check_timezone_string(timezone_string) ==
    IF ~isinstance_str(timezone_string) \/ timezone_string.v \notin available_timezones
    THEN "InvalidTimezoneException" ELSE ""

check_type(type_in) ==
    IF ~isinstance_str(type_in)
       \/ lower(type_in).val.v \notin {"airport", "station", "port", "unknown"}
    THEN "InvalidTypeException" ELSE ""

check_source(source) ==
    IF ~isinstance_str(source)
       \/ lower(source).val.v \notin {"ourairports", "legacy", "user"}
    THEN "InvalidSourceException" ELSE ""

FIELDNAMES ==
    <<"airport_id", "name", "city", "country", "iata", "icao", "latitude",
      "longitude", "altitude", "timezone_hours", "dst", "timezone_string",
      "type", "source">>

\* DictReader's restkey is None: the key the surplus fields are stored under.
RESTKEY == "None"

\* next(csv.DictReader([line], fieldnames)): an empty line has no row
\* (StopIteration), a field over the size limit raises csv.Error; missing
\* fields get restval None, surplus fields go to restkey as a list.
DictReader_next(line) ==
    IF line.kind = "field_limit" THEN [exc |-> "Error", val |-> None]
    ELSE IF line.fields = <<>> THEN [exc |-> "StopIteration", val |-> None]
    ELSE LET row == line.fields
             n == Len(FIELDNAMES)
             named == [k \in {FIELDNAMES[i] : i \in 1..n} |->
                         LET i == CHOOSE j \in 1..n : FIELDNAMES[j] = k IN
                         IF i <= Len(row) THEN JStr(row[i]) ELSE None]
         IN
         [exc |-> "",
          val |-> IF Len(row) > n
                  THEN JObj(With(named, RESTKEY,
                                 JList([i \in 1..(Len(row) - n) |-> JStr(row[n + i])])))
                  ELSE JObj(named)]

PROPER_AIRPORT == "proper_airport"
INCORRECT_AIRPORT == "incorrect_airport"

\* Conversions csv2dict applies to a field that passed its check.
round_float(x) == round9(float(x).val)
to_float(x) == float(x).val
\* The field stored as it was read, without lower().
to_lower_skipped(x) == x

to_lower(x) == lower(x).val

\* The check of name and city, which have no check_ function.
check_is_str(x) == IF isinstance_str(x) THEN "" ELSE "TypeError"

AirportFrame ==
    UNCHANGED <<element, bookings, timestamp, passengers, products,
                passenger_entries, flight_entries, emitted,
                   suspended, started>>

\* The exception raised by `tmp = airport[key]` followed by a check.
raised_by(tmp, checked) == IF tmp.exc # "" THEN tmp.exc ELSE checked

\* A try block of csv2dict whose handlers return an error Output: e is the
\* exception the block raised ("" if none) and converted the value it stores;
\* `invalid` is the exception its first handler names, KeyError the second;
\* any other exception leaves csv2dict.
TryFatal(here, next, key, e, invalid, invalid_error, converted) ==
    /\ pc = here
    /\ CASE e = "" ->
           /\ airport' = SetKey(airport, key, converted)
           /\ Goto(next, <<>>)
           /\ UNCHANGED idx
      [] e = invalid ->
           /\ Return(Output(None, JStr(invalid_error)),
                     <<LogEntry("exception", "Invalid " \o key)>>)
           /\ UNCHANGED airport
      [] e = "KeyError" ->
           /\ Return(Output(None, JStr("Missing " \o key)),
                     <<LogEntry("exception", "Missing " \o key)>>)
           /\ UNCHANGED airport
      [] OTHER ->
           /\ Raise(e, <<>>)
           /\ UNCHANGED airport
    /\ AirportFrame

\* Mutant of TryOptional: an invalid value ends csv2dict like a fatal one.
TryOptional_fatal(here, next, key, e, invalid, missing, converted) ==
    /\ pc = here
    /\ CASE e = "" ->
           /\ airport' = SetKey(airport, key, converted)
           /\ Goto(next, <<>>)
           /\ UNCHANGED idx
      [] e = invalid ->
           /\ Return(Output(None, JStr("Invalid " \o key)),
                     <<LogEntry("warning", "Invalid " \o key)>>)
           /\ UNCHANGED airport
      [] e = "KeyError" ->
           /\ airport' = SetKey(airport, key, None)
           /\ Goto(next, <<LogEntry("warning", "Missing " \o missing)>>)
           /\ UNCHANGED idx
      [] OTHER ->
           /\ Raise(e, <<>>)
           /\ UNCHANGED airport
    /\ AirportFrame

\* A try block of csv2dict whose handlers log a warning, store None and go on.
TryOptional(here, next, key, e, invalid, missing, converted) ==
    /\ pc = here
    /\ CASE e = "" ->
           /\ airport' = SetKey(airport, key, converted)
           /\ Goto(next, <<>>)
           /\ UNCHANGED idx
      [] e = invalid ->
           /\ airport' = SetKey(airport, key, None)
           /\ Goto(next, <<LogEntry("warning", "Invalid " \o key)>>)
           /\ UNCHANGED idx
      [] e = "KeyError" ->
           /\ airport' = SetKey(airport, key, None)
           /\ Goto(next, <<LogEntry("warning", "Missing " \o missing)>>)
           /\ UNCHANGED idx
      [] OTHER ->
           /\ Raise(e, <<>>)
           /\ UNCHANGED airport
    /\ AirportFrame

ReadCsv ==
    /\ pc = "csv_reader"
    /\ LET r == DictReader_next(element) IN
       IF r.exc # ""
       THEN /\ Return(Output(None, JStr("Invalid csv")),
                      <<LogEntry("exception", "Invalid csv")>>)
            /\ UNCHANGED airport
       ELSE /\ airport' = r.val
            /\ Goto("airport_id", <<>>)
            /\ UNCHANGED idx
    /\ AirportFrame

AirportId ==
    /\ pc = "airport_id"
    /\ LET r == Subscript(airport, "airport_id") IN
       CASE r.exc = "" ->
              /\ Goto("name", <<>>)
              /\ UNCHANGED idx
         [] r.exc = "KeyError" ->
              /\ Return(Output(None, JStr("Missing airport_id")),
                        <<LogEntry("exception", "Missing airport_id")>>)
         [] OTHER ->
              /\ Raise(r.exc, <<>>)
    /\ UNCHANGED airport
    /\ AirportFrame

Name ==
    LET tmp == Subscript(airport, "name") IN
    TryFatal("name", "city", "name",
             raised_by(tmp, check_is_str(tmp.val)),
             "TypeError", "name is not a string", tmp.val)

City ==
    LET tmp == Subscript(airport, "city") IN
    TryFatal("city", "iata", "city",
             raised_by(tmp, check_is_str(tmp.val)),
             "TypeError", "city is not a string", tmp.val)

Iata ==
    LET tmp == Subscript(airport, "iata") IN
    TryOptional("iata", "icao", "iata",
                raised_by(tmp, airport_check_iata_code(tmp.val)),
                "InvalidIATACodeException", "iata", tmp.val)

\* The KeyError handler of icao logs "Missing iata".
Icao ==
    LET tmp == Subscript(airport, "icao") IN
    TryOptional("icao", "latitude", "icao",
                raised_by(tmp, check_icao_code(tmp.val)),
                "InvalidICAOCodeException", "iata", tmp.val)

Latitude ==
    LET tmp == Subscript(airport, "latitude") IN
    TryFatal("latitude", "longitude", "latitude",
             raised_by(tmp, check_latitude(tmp.val)),
             "InvalidLatitudeException", "Invalid latitude", round_float(tmp.val))

Longitude ==
    LET tmp == Subscript(airport, "longitude") IN
    TryFatal("longitude", "altitude", "longitude",
             raised_by(tmp, check_longitude(tmp.val)),
             "InvalidLongitudeException", "Invalid longitude", round_float(tmp.val))

Altitude ==
    LET tmp == Subscript(airport, "altitude") IN
    TryFatal("altitude", "timezone_hours", "altitude",
             raised_by(tmp, check_altitude(tmp.val)),
             "InvalidAltitudeException", "Invalid altitude", round_float(tmp.val))

TimezoneHours ==
    LET tmp == Subscript(airport, "timezone_hours") IN
    TryOptional("timezone_hours", "dst", "timezone_hours",
                raised_by(tmp, check_timezone_hours(tmp.val)),
                "InvalidTimezoneException", "timezone_hours", to_float(tmp.val))

Dst ==
    LET tmp == Subscript(airport, "dst") IN
    TryOptional("dst", "timezone_string", "dst",
                raised_by(tmp, check_dst(tmp.val)),
                "InvalidDSTException", "dst", capitalize(tmp.val))

TimezoneString ==
    LET tmp == Subscript(airport, "timezone_string") IN
    TryOptional("timezone_string", "type", "timezone_string",
                raised_by(tmp, check_timezone_string(tmp.val)),
                "InvalidTimezoneException", "timezone_string", tmp.val)

Type ==
    LET tmp == Subscript(airport, "type") IN
    TryFatal("type", "source", "type",
             raised_by(tmp, check_type(tmp.val)),
             "InvalidTypeException", "Invalid type", to_lower(tmp.val))

\* The last block: an invalid source is reported as 'Invalid type'; a valid
\* one is lower-cased and the dictionary is returned as the result.
Source ==
    /\ pc = "source"
    /\ LET r == Subscript(airport, "source")
           e == IF r.exc # "" THEN r.exc ELSE check_source(r.val)
       IN
       CASE e = "" ->
              /\ airport' = SetKey(airport, "source", to_lower(r.val))
              /\ Return(Output(airport', None), <<>>)
         [] e = "InvalidSourceException" ->
              /\ Return(Output(None, JStr("Invalid type")),
                        <<LogEntry("exception", "Invalid source")>>)
              /\ UNCHANGED airport
         [] e = "KeyError" ->
              /\ Return(Output(None, JStr("Missing source")),
                        <<LogEntry("exception", "Missing source")>>)
              /\ UNCHANGED airport
         [] OTHER ->
              /\ Raise(e, <<>>)
              /\ UNCHANGED airport
    /\ AirportFrame

\* CSV2CleanDict.process after csv2dict has returned.
airport_process(el, out) ==
    IF Truthy(out.result)
    THEN TaggedOutput(PROPER_AIRPORT, out.result)
    ELSE TaggedOutput(INCORRECT_AIRPORT, [csv |-> el, error |-> str(out.error)])

ProcessAirport ==
    /\ pc = "returned"
    /\ emitted' = Append(emitted, airport_process(element, output))
    /\ pc' = "done"
    /\ UNCHANGED <<element, bookings, timestamp, passengers, products, idx,
                   passenger_entries, flight_entries, airport, output, exc, log,
                   suspended, started>>

(***************************************************************************)
(* Input lines of CSV2CleanDict.                                           *)
(***************************************************************************)
MaxDeviations == 2

Line(fields) == [kind |-> "csv", fields |-> fields]

\* A line with a field longer than csv.field_size_limit().
FIELD_LIMIT == [kind |-> "field_limit", fields |-> <<>>]

BASE_ROW ==
    <<"3797", "John F Kennedy Intl", "New York", "United States", "JFK", "KJFK",
      "40.639751", "-73.778925", "13", "-5", "A", "America/New_York",
      "airport", "OurAirports">>

\* Other texts for each column, in the order of FIELDNAMES.
ALTERNATIVES ==
    << <<"", "abc">>,
       <<"">>,
       <<"">>,
       <<"">>,
       <<"", "LHRX">>,
       <<"", "KJF">>,
       <<"", "abc", "90", "-90", "90.5", "nan", "40.6397512345678">>,
       <<"abc", "180", "-180.5", "nan">>,
       <<"abc", "29528", "29529", "-1641", "-1642">>,
       <<"", "abc", "26", "27", "5.75", "1.0000000001", "nan">>,
       <<"", "a", "X">>,
       <<"", "Mars/Phobos">>,
       <<"", "AIRPORT", "heliport", "Station">>,
       <<"", "LEGACY", "wiki", "user">> >>

Columns == 1..Len(FIELDNAMES)

AltWidth ==
    CHOOSE n \in 0..20 : /\ \A k \in Columns : Len(ALTERNATIVES[k]) <= n
                         /\ \E k \in Columns : Len(ALTERNATIVES[k]) = n

\* The lines fed to the pipeline: the base row with at most MaxDeviations
\* columns replaced, the base row cut short (down to the empty line), the
\* base row with surplus fields, and a line over the field size limit.
IsAirportElement(e) ==
    \/ \E S \in SUBSET Columns :
          /\ Cardinality(S) <= MaxDeviations
          /\ \E f \in [S -> 1..AltWidth] :
                /\ \A k \in S : f[k] <= Len(ALTERNATIVES[k])
                /\ e = Line([k \in Columns |->
                               IF k \in S THEN ALTERNATIVES[k][f[k]] ELSE BASE_ROW[k]])
    \/ \E n \in 0..(Len(BASE_ROW) - 1) : e = Line(SubSeq(BASE_ROW, 1, n))
    \/ \E surplus \in {<<"extra">>, <<"extra", "extra">>} : e = Line(BASE_ROW \o surplus)
    \/ e = FIELD_LIMIT

AirportInit ==
    /\ IsAirportElement(element)
    /\ pc = "csv_reader"
    /\ bookings = None
    /\ timestamp = None
    /\ passengers = None
    /\ products = None
    /\ idx = 0
    /\ passenger_entries = <<>>
    /\ flight_entries = <<>>
    /\ airport = None
    /\ output = NoOutput
    /\ emitted = <<>>
    /\ exc = ""
    /\ log = <<>>
    /\ suspended = IdleFrame
    /\ started = 1

AirportNext ==
    \/ ReadCsv
    \/ AirportId
    \/ Name
    \/ City
    \/ Iata
    \/ Icao
    \/ Latitude
    \/ Longitude
    \/ Altitude
    \/ TimezoneHours
    \/ Dst
    \/ TimezoneString
    \/ Type
    \/ Source
    \/ ProcessAirport

AirportSpec == AirportInit /\ [][AirportNext]_vars

(***************************************************************************)
(* Properties of CSV2CleanDict.                                            *)
(***************************************************************************)
AirportLabels ==
    {"csv_reader", "returned", "done"} \cup ({FIELDNAMES[i] : i \in Columns} \ {"country"})

\* C2: for every input line, well-formed or malformed, csv2dict returns
\* without raising and its Output has exactly one of result / error set, and
\* process emits exactly one tagged output: the clean airport on
\* proper_airport, or the {csv, error} pair on incorrect_airport; never both,
\* never neither.
C2_ExactlyOneAirportOutput ==
    /\ pc \in AirportLabels
    /\ exc = ""
    /\ pc # "done" => ENABLED AirportNext
    /\ pc \in {"returned", "done"} => (output.result = None) # (output.error = None)
    /\ pc # "done" => emitted = <<>>
    /\ pc = "done" =>
          /\ Len(emitted) = 1
          /\ IF output.error = None
             THEN /\ emitted[1] = TaggedOutput(PROPER_AIRPORT, output.result)
                  /\ output.result.t = "obj"
             ELSE /\ emitted[1] =
                       TaggedOutput(INCORRECT_AIRPORT,
                                    [csv |-> element, error |-> output.error])
                  /\ output.error.t = "str"

\* A malformed line (fewer fields than columns) for which process has
\* emitted its one rejection.
C2_Witness ==
    /\ pc = "done"
    /\ element.kind = "csv"
    /\ Len(element.fields) < Len(FIELDNAMES)
    /\ Len(emitted) = 1
    /\ emitted[1].tag = INCORRECT_AIRPORT

(***************************************************************************)
(* Rejections of JSON2CleanTuple for missing and emptied lists.            *)
(***************************************************************************)
\* The input is valid JSON whose top level is an object with a timestamp
\* that check_timestamp accepts.
ValidJsonAndTimestamp ==
    /\ element.valid_json
    /\ element.value.t = "obj"
    /\ "timestamp" \in DOMAIN element.value.v
    /\ check_timestamp(element.value.v["timestamp"]) = ""

\* The list event.DataElement.travelrecord[key] of the input is absent (the
\* path does not lead to it) or is the empty list.
ListAbsentOrEmpty(key) ==
    LET r == travelrecord_list(element.value, key) IN
    r.exc # "" \/ r.val = JList(<<>>)

\* C11: for valid JSON with a valid timestamp whose passengersList is absent
\* or empty, json2tuple never raises and never enters its loops, it returns
\* the rejection "Missing or empty list of passengers" with no result, and
\* process emits that one rejection.
C11_MissingOrEmptyPassengers ==
    (ValidJsonAndTimestamp /\ ListAbsentOrEmpty("passengersList")) =>
        /\ pc \in {"json_loads", "timestamp", "passengers", "returned", "done"}
        /\ exc = ""
        /\ passenger_entries = <<>> /\ flight_entries = <<>>
        /\ pc \in {"returned", "done"} =>
              output = Output(None, JStr("Missing or empty list of passengers"))
        /\ pc = "done" =>
              /\ Len(emitted) = 1
              /\ IsRejection(emitted[1], "Missing or empty list of passengers")

\* An event with a valid timestamp and an empty passengersList, rejected.
C11_Witness ==
    /\ pc = "done"
    /\ ValidJsonAndTimestamp
    /\ travelrecord_list(element.value, "passengersList") = [exc |-> "", val |-> JList(<<>>)]
    /\ Len(emitted) = 1
    /\ emitted[1].tag = INCORRECT_BOOKING

\* json2tuple has returned after entering its loops: both lists were found
\* and non-empty.
LoopsEntered ==
    /\ pc \in {"returned", "done"}
    /\ Truthy(passengers)
    /\ Truthy(products)

\* C12: when a non-empty passengersList leaves no passenger the reason is
\* exactly "Empty passenger list after processing non-empty json passenger
\* list", and when passengers survive but a non-empty productsList leaves no
\* flight it is exactly "Empty flight list after processing non-empty json
\* product list".
C12_ExactEmptyListReasons ==
    LoopsEntered =>
        /\ passenger_entries = <<>> =>
              output.error =
                JStr("Empty passenger list after processing non-empty json passenger list")
        /\ (passenger_entries # <<>> /\ flight_entries = <<>>) =>
              output.error =
                JStr("Empty flight list after processing non-empty json product list")

(***************************************************************************)
(* Rejections of CSV2CleanDict.  The rules below are those the properties   *)
(* state for the input text, written without the check_ functions.          *)
(***************************************************************************)
CsvReturned == pc \in {"returned", "done"}

ColumnOf(name) == CHOOSE i \in Columns : FIELDNAMES[i] = name

\* The line has a field in the column, and the text of that field.
Present(name) == element.kind = "csv" /\ ColumnOf(name) <= Len(element.fields)
Text(name) == element.fields[ColumnOf(name)]

\* The text is a decimal number between lo and hi inclusive.
DecimalIn(text, lo, hi) ==
    /\ text \in DOMAIN FloatTexts
    /\ LET f == FloatTexts[text] IN
       ~f.nan /\ ~float_lt(f, lo) /\ ~float_gt(f, hi)

FATAL_FIELDS == {"name", "city", "latitude", "longitude", "altitude", "type", "source"}
WARNING_FIELDS == {"iata", "icao", "timezone_hours", "dst", "timezone_string"}

\* The field is present and passes its rule.
FieldOk(name) ==
    /\ Present(name)
    /\ CASE name = "latitude" -> DecimalIn(Text(name), -90, 90)
         [] name = "longitude" -> DecimalIn(Text(name), -180, 180)
         [] name = "altitude" -> DecimalIn(Text(name), -1641, 29528)
         [] name = "type" ->
              StrFacts[Text(name)].lower \in {"airport", "station", "port", "unknown"}
         [] name = "source" ->
              StrFacts[Text(name)].lower \in {"ourairports", "legacy", "user"}
         [] name = "iata" -> StrFacts[Text(name)].len = 3
         [] name = "icao" -> StrFacts[Text(name)].len = 4
         [] name = "timezone_hours" -> DecimalIn(Text(name), -26, 26)
         [] name = "dst" ->
              StrFacts[Text(name)].capitalize \in {"E", "A", "S", "O", "Z", "N", "U"}
         [] name = "timezone_string" -> Text(name) \in available_timezones
         [] OTHER -> TRUE

IsCsvRejection == output.result = None /\ output.error # None
IsCleanAirport == output.result # None /\ output.error = None

\* C13: a line whose number of fields is not 14, or that cannot be parsed,
\* is rejected with the reason "Invalid csv" and gives no CleanAirport.
C13_WrongFieldCountIsInvalidCsv ==
    (CsvReturned /\ (element.kind # "csv" \/ Len(element.fields) # Len(FIELDNAMES))) =>
        output = Output(None, JStr("Invalid csv"))

\* C14: a row whose airport_id is missing (its first field is empty) is
\* rejected with the reason "Missing airport_id" and gives no CleanAirport.
C14_MissingAirportId ==
    (CsvReturned /\ Present("airport_id") /\ Text("airport_id") = "") =>
        output = Output(None, JStr("Missing airport_id"))

\* C15: whenever a fatal field (name, city, latitude, longitude, altitude,
\* type, source) is missing or fails its rule the row is rejected, whatever
\* the other fields hold; and a row of 14 fields is rejected only when a
\* fatal field fails.
C15_FatalFieldsDecide ==
    (CsvReturned /\ element.kind = "csv") =>
        /\ (\E f \in FATAL_FIELDS : ~FieldOk(f)) => IsCsvRejection
        /\ (Len(element.fields) = Len(FIELDNAMES) /\ IsCsvRejection) =>
              \E f \in FATAL_FIELDS : ~FieldOk(f)

\* The reasons that name a field.
ReasonsNaming(name) ==
    {JStr("Invalid " \o name), JStr("Missing " \o name), JStr(name \o " is not a string")}

\* C16: when exactly one fatal field fails, the reason of the rejection
\* names that field, so two different failing fields never give the same
\* reason.
C16_ReasonNamesTheField ==
    (CsvReturned /\ element.kind = "csv" /\ IsCsvRejection) =>
        \A f \in FATAL_FIELDS :
            (~FieldOk(f) /\ \A g \in FATAL_FIELDS \ {f} : FieldOk(g)) =>
                output.error \in ReasonsNaming(f)

\* C17: for a row whose fatal fields are all valid, any combination of
\* missing or invalid warning-tier fields (iata, icao, timezone_hours, dst,
\* timezone_string) gives a CleanAirport in which exactly those fields are
\* null, and never a rejection.
C17_WarningFieldsNulled ==
    (CsvReturned /\ element.kind = "csv" /\ \A f \in FATAL_FIELDS : FieldOk(f)) =>
        /\ IsCleanAirport
        /\ \A w \in WARNING_FIELDS : (output.result.v[w] = None) <=> ~FieldOk(w)

(***************************************************************************)
(* The CleanAirport that csv2dict returns.                                 *)
(***************************************************************************)
CleanAirport == output.result.v

\* The value is a number between lo and hi inclusive.
NumberIn(x, lo, hi) ==
    /\ x.t = "float"
    /\ ~x.nan /\ ~float_lt(x, lo) /\ ~float_gt(x, hi)

IsStringOf(x, n) == x.t = "str" /\ StrFacts[x.v].len = n

\* C18: in every CleanAirport name, city and country are strings, latitude,
\* longitude and altitude lie in their ranges, type and source are members
\* of their sets, and each of iata, icao, timezone_hours, dst and
\* timezone_string is null or passes its rule.
C18_CleanAirportIsValid ==
    (CsvReturned /\ IsCleanAirport) =>
        /\ \A k \in {"name", "city", "country"} : CleanAirport[k].t = "str"
        /\ NumberIn(CleanAirport["latitude"], -90, 90)
        /\ NumberIn(CleanAirport["longitude"], -180, 180)
        /\ NumberIn(CleanAirport["altitude"], -1641, 29528)
        /\ CleanAirport["type"] \in
              {JStr("airport"), JStr("station"), JStr("port"), JStr("unknown")}
        /\ CleanAirport["source"] \in {JStr("ourairports"), JStr("legacy"), JStr("user")}
        /\ CleanAirport["iata"] = None \/ IsStringOf(CleanAirport["iata"], 3)
        /\ CleanAirport["icao"] = None \/ IsStringOf(CleanAirport["icao"], 4)
        /\ CleanAirport["timezone_hours"] = None
              \/ NumberIn(CleanAirport["timezone_hours"], -26, 26)
        /\ CleanAirport["dst"] \in
              {None} \cup {JStr(c) : c \in {"E", "A", "S", "O", "Z", "N", "U"}}
        /\ CleanAirport["timezone_string"] \in
              {None} \cup {JStr(z) : z \in available_timezones}

\* The texts of the records that are integers.
INTEGER_TEXTS == {"3797"}

\* C19: in every CleanAirport airport_id is an integer; a row whose
\* airport_id is empty or is not an integer gives no CleanAirport.
C19_AirportIdIsInteger ==
    (CsvReturned /\ IsCleanAirport) =>
        /\ CleanAirport["airport_id"].t = "int"
        /\ Text("airport_id") \in INTEGER_TEXTS

\* A row of exactly 14 fields each of which satisfies its rule.
ValidRow ==
    /\ element.kind = "csv"
    /\ Len(element.fields) = Len(FIELDNAMES)
    /\ Text("airport_id") \in INTEGER_TEXTS
    /\ \A f \in FATAL_FIELDS \cup WARNING_FIELDS : FieldOk(f)

NoFieldNull == \A i \in Columns : CleanAirport[FIELDNAMES[i]] # None

\* C20 as stated: a valid row of 14 fields gives a CleanAirport in which no
\* field is null and iata, icao, timezone_hours, dst and timezone_string
\* carry the value supplied in the input.
C20_ValidRowKeepsSuppliedValues ==
    (CsvReturned /\ ValidRow) =>
        /\ IsCleanAirport
        /\ NoFieldNull
        /\ \A k \in {"iata", "icao", "dst", "timezone_string"} :
              CleanAirport[k] = JStr(Text(k))
        /\ CleanAirport["timezone_hours"] = FloatTexts[Text("timezone_hours")]

\* C20 amended: as above, but dst carries the supplied value capitalized.
C20_ValidRowKeepsValuesDstCapitalized ==
    (CsvReturned /\ ValidRow) =>
        /\ IsCleanAirport
        /\ NoFieldNull
        /\ \A k \in {"iata", "icao", "timezone_string"} :
              CleanAirport[k] = JStr(Text(k))
        /\ CleanAirport["dst"] = JStr(StrFacts[Text("dst")].capitalize)
        /\ CleanAirport["timezone_hours"] = FloatTexts[Text("timezone_hours")]

\* A valid row with a lower-case dst and a timezone_hours of more than nine
\* decimal digits, returned as a CleanAirport.
C20_Witness ==
    /\ CsvReturned
    /\ ValidRow
    /\ Text("dst") = "a"
    /\ Text("timezone_hours") = "1.0000000001"
    /\ IsCleanAirport

\* The number has at most nine decimal digits.
ScaleAtMost9(x) == x.nan \/ x.rest = <<>>

\* C21: every numeric field of a CleanAirport that passed validation
\* (latitude, longitude, altitude, timezone_hours) has been rounded to at
\* most 9 decimal digits.
C21_NumericFieldsRounded ==
    (CsvReturned /\ IsCleanAirport) =>
        \A k \in {"latitude", "longitude", "altitude", "timezone_hours"} :
            CleanAirport[k] # None =>
                CleanAirport[k].t = "float" /\ ScaleAtMost9(CleanAirport[k])

DST_LETTERS == {"E", "A", "S", "O", "Z", "N", "U"}

\* C22: type, source and dst are accepted in any letter case and normalized:
\* in every CleanAirport type and source are the lower-case form of the
\* input, and a dst that is not null is the upper-case letter of the input;
\* an upper-case type and a lower-case dst do not reject or null the field.
C22_CaseNormalized ==
    (CsvReturned /\ element.kind = "csv") =>
        /\ IsCleanAirport =>
              /\ CleanAirport["type"] = JStr(StrFacts[Text("type")].lower)
              /\ CleanAirport["source"] = JStr(StrFacts[Text("source")].lower)
              /\ CleanAirport["dst"] # None =>
                    /\ CleanAirport["dst"].v \in DST_LETTERS
                    /\ StrFacts[CleanAirport["dst"].v].lower = StrFacts[Text("dst")].lower
        /\ (\A f \in FATAL_FIELDS : FieldOk(f)) => IsCleanAirport
        /\ (IsCleanAirport /\ FieldOk("dst")) => CleanAirport["dst"] # None

\* The row with type AIRPORT and dst a, returned with airport and A.
C22_Witness ==
    /\ CsvReturned
    /\ IsCleanAirport
    /\ Text("type") = "AIRPORT"
    /\ Text("dst") = "a"
    /\ CleanAirport["type"] = JStr("airport")
    /\ CleanAirport["dst"] = JStr("A")

(***************************************************************************)
(* Both pipelines: one record handed to CSV2CleanDict or JSON2CleanTuple.  *)
(***************************************************************************)
IsAirportRun == "kind" \in DOMAIN element

PipelineInit == BookingInit \/ AirportInit

PipelineNext ==
    \/ IsAirportRun /\ AirportNext
    \/ ~IsAirportRun /\ BookingNext

PipelineSpec == PipelineInit /\ [][PipelineNext]_vars

\* C23: the payload of every emitted rejection ('csv' for airports, 'json'
\* for bookings) is the raw input that was passed to process, and a record
\* that json2tuple / csv2dict rejected is emitted as such a rejection.
C23_PayloadIsRawInput ==
    /\ \A i \in 1..Len(emitted) :
          /\ emitted[i].tag = INCORRECT_BOOKING => emitted[i].value.json = element
          /\ emitted[i].tag = INCORRECT_AIRPORT => emitted[i].value.csv = element
    /\ (pc = "done" /\ output.error # None) =>
          /\ Len(emitted) = 1
          /\ emitted[1].tag = IF IsAirportRun THEN INCORRECT_AIRPORT ELSE INCORRECT_BOOKING

\* A booking that was parsed and then rejected, emitted with its input text.
C23_Witness ==
    /\ pc = "done"
    /\ ~IsAirportRun
    /\ element.valid_json
    /\ Len(emitted) = 1
    /\ emitted[1].tag = INCORRECT_BOOKING
    /\ emitted[1].value.json = element

(***************************************************************************)
(* Re-validation: a CleanAirport that process has emitted is fed back      *)
(* through the field blocks of csv2dict, its values taken as typed.        *)
(***************************************************************************)
FeedBack ==
    /\ pc = "done"
    /\ Len(emitted) = 1
    /\ emitted[1].tag = PROPER_AIRPORT
    /\ airport' = emitted[1].value
    /\ pc' = "airport_id"
    /\ UNCHANGED <<element, bookings, timestamp, passengers, products, idx,
                   passenger_entries, flight_entries, output, emitted, exc, log,
                   suspended, started>>

RevalidateNext ==
    \/ AirportNext
    \/ FeedBack

RevalidateSpec == AirportInit /\ [][RevalidateNext]_vars

\* The clean record is on its second way through the field rules.
SecondPass == Len(emitted) = 1 /\ pc \notin {"done", "raised"}

\* C24: feeding the field values of a clean record (null-substituted fields
\* included) back through the same field rules gives the identical record:
\* no step emits a new diagnostic, and what is returned is the record fed in,
\* not a rejection.
C24_Idempotent ==
    [][SecondPass =>
          /\ log' = log
          /\ pc' = "returned" => output' = Output(emitted[1].value, None)]_vars

\* The six status values the bookings table documents, lower-cased.
DOCUMENTED_STATUSES ==
    {"confirmed", "cancelled", "waitinglist", "onrequest", "seatavailable",
     "unaccepted"}

\* The product at hand carries one of the documented status values, in any
\* letter case.
HasDocumentedStatus ==
    /\ AtProduct
    /\ "bookingStatus" \in DOMAIN ThisProduct.v
    /\ ThisProduct.v.bookingStatus.t = "str"
    /\ StrFacts[ThisProduct.v.bookingStatus.v].lower \in DOCUMENTED_STATUSES

\* C25: a product whose bookingStatus is one of Confirmed, Cancelled,
\* WaitingList, OnRequest, SeatAvailable, Unaccepted, in any letter case,
\* passes the bookingStatus rule: the product loop never logs
\* 'Invalid bookingStatus' for it.
C25_DocumentedStatusPasses ==
    [][HasDocumentedStatus =>
          log' # log \o <<LogEntry("error", "Invalid bookingStatus")>>]_vars

GoodCode(key) ==
    /\ key \in DOMAIN ThisFlight.v
    /\ ThisFlight.v[key].t = "str"
    /\ StrFacts[ThisFlight.v[key].v].len = 3

C27_Step ==
    (AtProduct /\ Appended) =>
        /\ GoodCode("originAirport") =>
                NewEntry.origin_airport = ThisFlight.v.originAirport
        /\ GoodCode("destinationAirport") =>
                NewEntry.destination_airport = ThisFlight.v.destinationAirport

\* C27: a surviving product whose originAirport (destinationAirport) is a
\* valid 3-character code carries that code as origin_airport
\* (destination_airport) of its flight entry, and so of every row derived
\* from it; a valid code is never replaced by null.
C27_ValidCodeKept == [][C27_Step]_vars

(***************************************************************************)
(* Order of the event-level rejections of json2tuple.  The six conditions  *)
(* are stated for the input document.                                      *)
(***************************************************************************)
Doc == element.value

TimestampFails ==
    \/ Doc.t # "obj"
    \/ "timestamp" \notin DOMAIN Doc.v
    \/ check_timestamp(Doc.v["timestamp"]) # ""

ListOf(key) == travelrecord_list(Doc, key).val

\* The list is missing (the path event.DataElement.travelrecord does not lead
\* to it) or empty: null, an empty list, string or object, or 0.
ListMissingOrEmpty(key) ==
    \/ travelrecord_list(Doc, key).exc # ""
    \/ ListOf(key) \in {None, JList(<<>>), JStr(""), EmptyDict, JInt(0)}

\* No element of the list is kept by the body of its loop.
NoPassengerSurvives ==
    \A i \in 1..Len(ListOf("passengersList").v) :
        ~passenger_body(ListOf("passengersList").v[i], Doc.v["timestamp"]).keep
NoProductSurvives ==
    \A i \in 1..Len(ListOf("productsList").v) :
        ~product_body(ListOf("productsList").v[i]).keep

PASSENGER_DIAGNOSTICS ==
    {"Missing uci", "Missing age", "Invalid age", "Missing passengerType",
     "Invalid passengerType"}

\* C28: json2tuple rejects an event for the first of: invalid JSON,
\* missing/invalid timestamp, missing/empty passengersList, missing/empty
\* productsList, no surviving passenger, no surviving product; whenever it
\* returns, the reason is that of the first of these that holds of the
\* event, and nothing of a later check has been evaluated.
C28_FixedPriority ==
    pc \in {"returned", "done"} =>
        IF ~element.valid_json
        THEN /\ output = Output(None, JStr(ERR_INVALID_JSON))
             /\ bookings = None /\ timestamp = None
             /\ passengers = None /\ products = None
             /\ Len(log) = 1
        ELSE IF TimestampFails
        THEN /\ output.result = None
             /\ output.error \in {JStr(ERR_MISSING_TIMESTAMP), JStr(ERR_INVALID_TIMESTAMP)}
             /\ passengers = None /\ products = None
             /\ Len(log) = 1
        ELSE IF ListMissingOrEmpty("passengersList")
        THEN /\ output = Output(None, JStr(ERR_PASSENGERS))
             /\ products = None
             /\ idx = 0
             /\ Len(log) = 1
        ELSE IF ListMissingOrEmpty("productsList")
        THEN /\ output = Output(None, JStr(ERR_PRODUCTS))
             /\ idx = 0
             /\ Len(log) = 1
        ELSE IF NoPassengerSurvives
        THEN /\ output = Output(None, JStr(ERR_NO_PASSENGER))
             /\ flight_entries = <<>>
             /\ \A i \in 1..Len(log) : log[i].what \in PASSENGER_DIAGNOSTICS
        ELSE IF NoProductSurvives
        THEN output = Output(None, JStr(ERR_NO_FLIGHT))
        ELSE output.error = None

\* An event with a malformed timestamp, no passengersList and no
\* productsList is rejected for its timestamp; one whose only passenger and
\* only product both fail is rejected for its passengers.
C28_Witness ==
    /\ pc = "done"
    /\ element.valid_json
    /\ \/ /\ TimestampFails
          /\ ListMissingOrEmpty("passengersList")
          /\ ListMissingOrEmpty("productsList")
          /\ IsRejection(emitted[1], ERR_INVALID_TIMESTAMP)
       \/ /\ ~TimestampFails
          /\ ~ListMissingOrEmpty("passengersList")
          /\ ~ListMissingOrEmpty("productsList")
          /\ NoPassengerSurvives /\ NoProductSurvives
          /\ IsRejection(emitted[1], ERR_NO_PASSENGER)

(***************************************************************************)
(* Order of the field checks of csv2dict.                                  *)
(***************************************************************************)
\* The dictionary csv.DictReader gives for the line, before any check.
RawAirport == DictReader_next(element).val

\* The exception the check of a fatal field raises for the raw text of the
\* line ("" if none).
FatalCheck(k) ==
    LET tmp == Subscript(RawAirport, k) IN
    raised_by(tmp,
              CASE k \in {"name", "city"} -> check_is_str(tmp.val)
                [] k = "latitude" -> check_latitude(tmp.val)
                [] k = "longitude" -> check_longitude(tmp.val)
                [] k = "altitude" -> check_altitude(tmp.val)
                [] k = "type" -> check_type(tmp.val)
                [] k = "source" -> check_source(tmp.val))

FailingFatal == {k \in FATAL_FIELDS : FatalCheck(k) # ""}

\* The earliest field of the set in the order of the columns.
Earliest(S) == CHOOSE k \in S : \A g \in S : ColumnOf(k) <= ColumnOf(g)

After(k) == {FIELDNAMES[i] : i \in {j \in Columns : j > ColumnOf(k)}}

\* C29: csv2dict checks the fields in the order of the columns and stops
\* only at a fatal failure: when fatal fields fail the record is rejected at
\* the earliest of them (the reason and the last diagnostic name it, all
\* diagnostics before it are warnings, and no later field has been touched;
\* the reason returned for source is 'Invalid type'), whatever
\* warning-tier fields failed before it; when none fails the record is
\* returned clean.
C29_EarliestFatalFieldDecides ==
    (CsvReturned /\ DictReader_next(element).exc = "") =>
        IF FailingFatal = {}
        THEN IsCleanAirport
        ELSE /\ IsCsvRejection
             /\ Earliest(FailingFatal) # "source" =>
                    output.error \in ReasonsNaming(Earliest(FailingFatal))
             /\ log[Len(log)] = LogEntry("exception", "Invalid " \o Earliest(FailingFatal))
             /\ \A i \in 1..(Len(log) - 1) : log[i].level = "warning"
             /\ \A g \in After(Earliest(FailingFatal)) : airport.v[g] = RawAirport.v[g]

\* A row with an invalid iata and an invalid latitude, or with an invalid
\* latitude and an invalid longitude, rejected for its latitude.
C29_Witness ==
    /\ pc = "done"
    /\ element.kind = "csv"
    /\ Len(element.fields) = Len(FIELDNAMES)
    /\ FatalCheck("latitude") # ""
    /\ \/ FatalCheck("longitude") # ""
       \/ /\ airport_check_iata_code(JStr(Text("iata"))) # ""
          /\ Len(log) = 2
    /\ output = Output(None, JStr("Invalid latitude"))

(***************************************************************************)
(* Diagnostics of the decisions of both normalizers.                       *)
(***************************************************************************)
\* The step appends diagnostics, one of them of one of the levels.
Logs(levels) ==
    /\ Len(log') > Len(log)
    /\ SubSeq(log', 1, Len(log)) = log
    /\ \E i \in (Len(log) + 1)..Len(log') : log'[i].level \in levels

FATAL_LEVELS == {"error", "exception"}

\* The step returns a whole-record rejection.
Rejects == pc # "returned" /\ pc' = "returned" /\ output'.error # None

\* The step is a round of a loop of json2tuple that drops its element.
DropsPassenger ==
    /\ pc = "passenger_loop" /\ idx' = idx + 1
    /\ passenger_entries' = passenger_entries
DropsProduct ==
    /\ pc = "product_loop" /\ idx' = idx + 1
    /\ flight_entries' = flight_entries

\* The step of csv2dict stores null in a warning field.
SubstitutesNull ==
    /\ pc \in WARNING_FIELDS
    /\ pc' \notin {"returned", "raised"}
    /\ airport'.v[pc] = None

\* C30: every whole-record rejection and every drop of a passenger or
\* product emits an error-level diagnostic in the same step, and every
\* null-substitution of a warning field emits a warning; none is silent.
C30_NoSilentDecision ==
    [][/\ Rejects => Logs(FATAL_LEVELS)
       /\ (DropsPassenger \/ DropsProduct) => Logs(FATAL_LEVELS)
       /\ (IsAirportRun /\ SubstitutesNull) => Logs({"warning"})]_vars

(***************************************************************************)
(* json2tuple and csv2dict as functions of the record alone.               *)
(***************************************************************************)
Returned(out) == [exc |-> "", out |-> out]
Escaped(e) == [exc |-> e, out |-> NoOutput]

\* The entries of the elements a loop body keeps, in the order of the list:
\* kept is the set of their indexes, entry the function from index to entry.
EntriesOf(kept, entry) ==
    [n \in 1..Cardinality(kept) |->
        entry[CHOOSE i \in kept : Cardinality({j \in kept : j <= i}) = n]]

json2tuple_alone(e) ==
    LET j == json_loads(e)
        ts == Subscript(j.val, "timestamp")
        pl == travelrecord_list(j.val, "passengersList")
        fl == travelrecord_list(j.val, "productsList")
        pit == Iterate(pl.val)
        fit == Iterate(fl.val)
        P == [i \in 1..Len(pit.items) |-> passenger_body(pit.items[i], ts.val)]
        F == [i \in 1..Len(fit.items) |-> product_body(fit.items[i])]
        pbad == {i \in DOMAIN P : P[i].exc # ""}
        fbad == {i \in DOMAIN F : F[i].exc # ""}
        pe == EntriesOf({i \in DOMAIN P : P[i].keep}, [i \in DOMAIN P |-> P[i].entry])
        fe == EntriesOf({i \in DOMAIN F : F[i].keep}, [i \in DOMAIN F |-> F[i].entry])
    IN
    IF j.exc # "" THEN Returned(Output(None, JStr(ERR_INVALID_JSON)))
    ELSE IF ts.exc = "KeyError" THEN Returned(Output(None, JStr(ERR_MISSING_TIMESTAMP)))
    ELSE IF ts.exc # "" THEN Escaped(ts.exc)
    ELSE IF check_timestamp(ts.val) # ""
    THEN Returned(Output(None, JStr(ERR_INVALID_TIMESTAMP)))
    ELSE IF pl.exc # "" \/ ~Truthy(pl.val) THEN Returned(Output(None, JStr(ERR_PASSENGERS)))
    ELSE IF fl.exc # "" \/ ~Truthy(fl.val) THEN Returned(Output(None, JStr(ERR_PRODUCTS)))
    ELSE IF pit.exc # "" THEN Escaped(pit.exc)
    ELSE IF pbad # {} THEN Escaped(P[CHOOSE i \in pbad : \A k \in pbad : i <= k].exc)
    ELSE IF pe = <<>> THEN Returned(Output(None, JStr(ERR_NO_PASSENGER)))
    ELSE IF fit.exc # "" THEN Escaped(fit.exc)
    ELSE IF fbad # {} THEN Escaped(F[CHOOSE i \in fbad : \A k \in fbad : i <= k].exc)
    ELSE IF fe = <<>> THEN Returned(Output(None, JStr(ERR_NO_FLIGHT)))
    ELSE Returned(Output([t |-> "generator", v |-> cross_product(pe, fe)], None))

\* The exception the try block of a field raises for the value read, and the
\* value the block stores when it raises none.
field_check(k, tmp) ==
    CASE k \in {"name", "city"} -> check_is_str(tmp)
      [] k = "iata" -> airport_check_iata_code(tmp)
      [] k = "icao" -> check_icao_code(tmp)
      [] k = "latitude" -> check_latitude(tmp)
      [] k = "longitude" -> check_longitude(tmp)
      [] k = "altitude" -> check_altitude(tmp)
      [] k = "timezone_hours" -> check_timezone_hours(tmp)
      [] k = "dst" -> check_dst(tmp)
      [] k = "timezone_string" -> check_timezone_string(tmp)
      [] k = "type" -> check_type(tmp)
      [] k = "source" -> check_source(tmp)
      [] OTHER -> ""

field_stored(k, tmp) ==
    CASE k \in {"latitude", "longitude", "altitude"} -> round_float(tmp)
      [] k = "timezone_hours" -> to_float(tmp)
      [] k = "dst" -> capitalize(tmp)
      [] k \in {"type", "source"} -> to_lower(tmp)
      [] OTHER -> tmp

\* The error an invalid value of a fatal field is returned with.
invalid_error(k) ==
    CASE k \in {"name", "city"} -> k \o " is not a string"
      [] k = "source" -> "Invalid type"
      [] OTHER -> "Invalid " \o k

csv2dict_alone(e) ==
    LET r == DictReader_next(e)
        row == r.val.v
        named == {FIELDNAMES[i] : i \in 1..Len(FIELDNAMES)}
        fatal == {"name", "city", "latitude", "longitude", "altitude", "type", "source"}
        bad == {k \in fatal : field_check(k, row[k]) # ""}
        first == CHOOSE k \in bad :
                    \A g \in bad :
                        \E i, n \in 1..Len(FIELDNAMES) :
                            FIELDNAMES[i] = k /\ FIELDNAMES[n] = g /\ i <= n
    IN
    IF r.exc # "" THEN Returned(Output(None, JStr("Invalid csv")))
    ELSE IF bad # {} THEN Returned(Output(None, JStr(invalid_error(first))))
    ELSE Returned(Output(JObj([k \in DOMAIN row |->
                                 IF k \notin named THEN row[k]
                                 ELSE IF field_check(k, row[k]) # "" THEN None
                                 ELSE field_stored(k, row[k])]),
                         None))

\* process for the record alone: the exception that escapes, or what it emits.
process_alone(e) ==
    IF "kind" \in DOMAIN e
    THEN LET r == csv2dict_alone(e) IN
         [exc |-> r.exc, emits |-> airport_process(e, r.out)]
    ELSE LET r == json2tuple_alone(e) IN
         [exc |-> r.exc, emits |-> booking_process(e, r.out)]

(***************************************************************************)
(* Several calls of process.  A worker calls process for one record after  *)
(* another; the calls of two workers are interleaved step by step.  The    *)
(* locals of the running call are the variables, those of the other call   *)
(* are in suspended; the logging module and the outputs are shared.        *)
(***************************************************************************)
MaxCalls == 2

BookingSamples ==
    {JsonText(MkDoc(TS_SECONDS, JList(<<P_OK, SetKey(P_OK, "uci", JStr("u2"))>>),
                    JList(<<F_OK>>))),
     JsonText(MkDoc(TS_SECONDS, JList(<<DelKey(P_OK, "uci"), DelKey(P_OK, "uci")>>),
                    JList(<<F_OK>>))),
     JsonText(MkDoc(TS_SECONDS, JList(<<P_OK>>),
                    JList(<<DelKey(F_OK, "flight"),
                            SetKey(F_OK, "bookingStatus", JStr("cancelled"))>>))),
     JsonText(MkDoc(TS_SECONDS, JList(<<P_OK, JInt(1)>>), JList(<<F_OK>>))),
     NOT_JSON}

AirportSamples ==
    {Line(BASE_ROW),
     Line([k \in Columns |-> IF FIELDNAMES[k] = "iata" THEN "LHRX" ELSE BASE_ROW[k]]),
     Line([k \in Columns |-> IF FIELDNAMES[k] = "latitude" THEN "abc" ELSE BASE_ROW[k]]),
     Line(SubSeq(BASE_ROW, 1, 8)),
     FIELD_LIMIT}

RecordSamples == BookingSamples \cup AirportSamples

FirstLabel(e) == IF "kind" \in DOMAIN e THEN "csv_reader" ELSE "json_loads"

\* The worker calls process for its next record.  The locals of its last
\* call are left as they are: a call assigns every local before reading it.
StartCall ==
    /\ pc \in {"idle", "done", "raised"}
    /\ started < MaxCalls
    /\ \E e \in RecordSamples :
          /\ element' = e
          /\ pc' = FirstLabel(e)
    /\ exc' = ""
    /\ started' = started + 1
    /\ UNCHANGED <<bookings, timestamp, passengers, products, idx,
                   passenger_entries, flight_entries, airport, output, emitted,
                   log, suspended>>

\* The other worker runs: the locals of the two calls change places.
Switch ==
    /\ suspended.pc \notin {"idle", "done", "raised"} \/ started < MaxCalls
    /\ suspended' = Frame
    /\ element' = suspended.element
    /\ pc' = suspended.pc
    /\ bookings' = suspended.bookings
    /\ timestamp' = suspended.timestamp
    /\ passengers' = suspended.passengers
    /\ products' = suspended.products
    /\ idx' = suspended.idx
    /\ passenger_entries' = suspended.passenger_entries
    /\ flight_entries' = suspended.flight_entries
    /\ airport' = suspended.airport
    /\ output' = suspended.output
    /\ exc' = suspended.exc
    /\ UNCHANGED <<emitted, log, started>>

CallsInit ==
    /\ element \in RecordSamples
    /\ pc = FirstLabel(element)
    /\ bookings = None
    /\ timestamp = None
    /\ passengers = None
    /\ products = None
    /\ idx = 0
    /\ passenger_entries = <<>>
    /\ flight_entries = <<>>
    /\ airport = None
    /\ output = NoOutput
    /\ emitted = <<>>
    /\ exc = ""
    /\ log = <<>>
    /\ suspended = IdleFrame
    /\ started = 1

CallsNext ==
    \/ IsAirportRun /\ AirportNext
    \/ ~IsAirportRun /\ BookingNext
    \/ StartCall
    \/ Switch

CallsSpec == CallsInit /\ [][CallsNext]_vars

\* C26: in every sequence and interleaving of calls, what process emits for
\* a record, and the exception that escapes it, are those of processing the
\* record alone.
C26_ResultDependsOnRecordOnly ==
    [][/\ emitted' # emitted =>
             /\ process_alone(element).exc = ""
             /\ emitted' = Append(emitted, process_alone(element).emits)
       /\ (element' = element /\ pc # "raised" /\ pc' = "raised") =>
             exc' = process_alone(element).exc]_vars

\* Two interleaved calls have ended: the diagnostics of the airport call lie
\* between the two 'Missing uci' of the booking call.
C26_Witness ==
    /\ Len(emitted) = 2
    /\ pc = "done" /\ suspended.pc = "done"
    /\ \E i, j, k \in 1..Len(log) :
          /\ i < j /\ j < k
          /\ log[i].what = "Missing uci"
          /\ log[j].what = "Invalid iata"
          /\ log[k].what = "Missing uci"

====
